---- MODULE Spec2Model ----
(***************************************************************************)
(* Model of the Mixpanel MCP worker: the fetch handler of src/index.ts,    *)
(* the credential resolver of types/env.ts and the API client of           *)
(* src/client.ts.                                                          *)
(*                                                                         *)
(* Strings are sequences of tokens.  A token is a single character where   *)
(* the code works on characters (header values, credentials, retry-after)  *)
(* and a literal chunk of text where it does not (base URLs, path          *)
(* literals).  Concatenation of strings is \o.  A JavaScript value that    *)
(* may be null or undefined is a sequence of length at most one: <<>> is   *)
(* null/undefined and <<v>> is the value v.                                *)
(***************************************************************************)
EXTENDS Integers, Sequences, FiniteSets, TLC

\* ---------------------------------------------------------------------------
\* Optional values
\* ---------------------------------------------------------------------------
None == <<>>

Some(v) == <<v>>

IsSome(o) == o /= <<>>

\* a JavaScript string is truthy exactly when it is non-empty
Truthy(o) == o /= <<>> /\ o[1] /= <<>>

\* ---------------------------------------------------------------------------
\* Characters
\* ---------------------------------------------------------------------------
B64Alphabet ==
    << "A","B","C","D","E","F","G","H","I","J","K","L","M","N","O","P",
       "Q","R","S","T","U","V","W","X","Y","Z","a","b","c","d","e","f",
       "g","h","i","j","k","l","m","n","o","p","q","r","s","t","u","v",
       "w","x","y","z","0","1","2","3","4","5","6","7","8","9","+","/" >>

Digits == <<"0","1","2","3","4","5","6","7","8","9">>

IndexIn(c, seq) == CHOOSE i \in 1..Len(seq) : seq[i] = c

IsDigit(c) == \E i \in 1..Len(Digits) : Digits[i] = c

DigitValue(c) == IndexIn(c, Digits) - 1

\* char code of a character, as String.prototype.charCodeAt gives it
CharCode(c) ==
    CASE c = ":" -> 58
      [] c = " " -> 32
      [] c = "-" -> 45
      [] IsDigit(c) -> 48 + DigitValue(c)
      [] c \in {B64Alphabet[i] : i \in 1..26} -> 64 + IndexIn(c, B64Alphabet)
      [] c \in {B64Alphabet[i] : i \in 27..52} -> 96 + IndexIn(c, B64Alphabet) - 26

\* String.prototype.toLowerCase on one character
LowerChar(c) ==
    IF c \in {B64Alphabet[i] : i \in 1..26}
    THEN B64Alphabet[IndexIn(c, B64Alphabet) + 26]
    ELSE c

toLowerCase(s) == [i \in 1..Len(s) |-> LowerChar(s[i])]

\* ---------------------------------------------------------------------------
\* btoa: base64 of the char codes of a string
\* ---------------------------------------------------------------------------
RECURSIVE B64Bytes(_)
B64Bytes(b) ==
    IF Len(b) = 0 THEN <<>>
    ELSE IF Len(b) = 1 THEN
        << B64Alphabet[(b[1] \div 4) + 1],
           B64Alphabet[((b[1] % 4) * 16) + 1], "=", "=" >>
    ELSE IF Len(b) = 2 THEN
        << B64Alphabet[(b[1] \div 4) + 1],
           B64Alphabet[((b[1] % 4) * 16 + (b[2] \div 16)) + 1],
           B64Alphabet[((b[2] % 16) * 4) + 1], "=" >>
    ELSE
        << B64Alphabet[(b[1] \div 4) + 1],
           B64Alphabet[((b[1] % 4) * 16 + (b[2] \div 16)) + 1],
           B64Alphabet[((b[2] % 16) * 4 + (b[3] \div 64)) + 1],
           B64Alphabet[(b[3] % 64) + 1] >>
        \o B64Bytes(SubSeq(b, 4, Len(b)))

btoa(s) == B64Bytes([i \in 1..Len(s) |-> CharCode(s[i])])

\* ---------------------------------------------------------------------------
\* parseInt(s, 10): leading blanks and one sign are skipped, the longest
\* prefix of digits is read, and the result is NaN when there is none
\* ---------------------------------------------------------------------------
NaN == "NaN"

RECURSIVE SkipBlanks(_)
SkipBlanks(s) ==
    IF Len(s) > 0 /\ s[1] = " " THEN SkipBlanks(Tail(s)) ELSE s

RECURSIVE DigitPrefix(_, _)
DigitPrefix(s, acc) ==
    IF Len(s) > 0 /\ IsDigit(s[1])
    THEN DigitPrefix(Tail(s), acc * 10 + DigitValue(s[1]))
    ELSE acc

parseInt(s) ==
    LET t == SkipBlanks(s)
        neg == Len(t) > 0 /\ t[1] = "-"
        u == IF neg THEN Tail(t) ELSE t
    IN  IF Len(u) = 0 \/ ~IsDigit(u[1]) THEN NaN
        ELSE IF neg THEN 0 - DigitPrefix(u, 0) ELSE DigitPrefix(u, 0)

\* ---------------------------------------------------------------------------
\* Inbound requests
\* ---------------------------------------------------------------------------
HeaderUsernames == {None, Some(<<>>), Some(<<"s","v","c">>), Some(<<"a">>)}

HeaderSecrets == {None, Some(<<>>), Some(<<"s","h","h">>)}

HeaderProjectIds == {None, Some(<<>>), Some(<<"1","2","3">>)}

HeaderProjectTokens == {None, Some(<<>>), Some(<<"t","o","k">>)}

HeaderEuResident ==
    { None, Some(<<"t","r","u","e">>), Some(<<"T","R","U","E">>),
      Some(<<"t","R","u","E">>), Some(<<"f","a","l","s","e">>) }

InboundPaths == {"/health", "/mcp", "/sse", "/"}

InboundMethods == {"GET", "POST"}

InboundHeaders ==
    [ username : HeaderUsernames, secret : HeaderSecrets,
      projectId : HeaderProjectIds, projectToken : HeaderProjectTokens,
      euResident : HeaderEuResident ]

H_USERNAME == "X-Mixpanel-Service-Account-Username"

H_SECRET == "X-Mixpanel-Service-Account-Secret"

H_PROJECT_ID == "X-Mixpanel-Project-Id"

H_PROJECT_TOKEN == "X-Mixpanel-Project-Token"

\* ---------------------------------------------------------------------------
\* Credential resolver
\* ---------------------------------------------------------------------------
\* headers.get(name) || ''
OrEmpty(h) == IF Truthy(h) THEN h[1] ELSE <<>>

\* headers.get(name) || undefined
OrUndefined(h) == IF Truthy(h) THEN h ELSE None

\* parseTenantCredentials comparing the residency flag without toLowerCase
parseTenantCredentialsCaseSensitive(headers) ==
    [ username |-> OrEmpty(headers.username),
      secret |-> OrEmpty(headers.secret),
      projectId |-> OrEmpty(headers.projectId),
      projectToken |-> OrUndefined(headers.projectToken),
      euResident |-> IsSome(headers.euResident)
                     /\ headers.euResident[1] = <<"t","r","u","e">> ]

parseTenantCredentials(headers) ==
    [ username |-> OrEmpty(headers.username),
      secret |-> OrEmpty(headers.secret),
      projectId |-> OrEmpty(headers.projectId),
      projectToken |-> OrUndefined(headers.projectToken),
      euResident |-> IsSome(headers.euResident)
                     /\ toLowerCase(headers.euResident[1]) = <<"t","r","u","e">> ]

\* validateCredentials without its project id check
validateCredentialsNoProjectId(credentials) ==
    IF credentials.username = <<>> \/ credentials.secret = <<>>
    THEN Some(<< "Missing credentials. Provide ", H_USERNAME, " and ",
                 H_SECRET, " headers." >>)
    ELSE None

\* None when the credentials pass, otherwise the message of the Error thrown
validateCredentials(credentials) ==
    IF credentials.username = <<>> \/ credentials.secret = <<>>
    THEN Some(<< "Missing credentials. Provide ", H_USERNAME, " and ",
                 H_SECRET, " headers." >>)
    ELSE IF credentials.projectId = <<>>
    THEN Some(<< "Missing project ID. Provide ", H_PROJECT_ID, " header." >>)
    ELSE None

\* ---------------------------------------------------------------------------
\* State
\* ---------------------------------------------------------------------------
VARIABLES
    pc,            \* "idle", "serving", "awaiting" (an outbound call is in flight), "done"
    inbound,       \* the inbound request being served: [path, method, headers]
    httpResponse,  \* what fetch answered itself: None or [status, message]
    server,        \* None, or the names of the tools registered on the server that
                   \* createStatelessServer built for the request
    client,        \* None, or the credentials held by the client built for the request
    invocation,    \* None, or the tool call in progress: the client operation it is
                   \* for, how far it got (via) and its arguments: [op, via, args]
    calls,         \* the outbound calls issued by the current invocation
    response,      \* None, or the remote response the invocation received
    result,        \* None, or what the client operation returned or threw
    envelope,      \* None, or what the tool handler returned to the MCP server
    previous,      \* None, or the operation of the tool call this request's server
                   \* handled before the current one
    peer           \* the request in flight beside this one: its pc, inbound, ..., envelope

vars ==
    <<pc, inbound, httpResponse, server, client, invocation, calls, response, result,
      envelope, previous, peer>>

\* a request slot nothing has arrived in
Idle ==
    [ pc |-> "idle", inbound |-> None, httpResponse |-> None, server |-> None,
      client |-> None, invocation |-> None, calls |-> <<>>, response |-> None,
      result |-> None, envelope |-> None, previous |-> None ]

Init ==
    /\ pc = "idle"
    /\ inbound = None
    /\ httpResponse = None
    /\ server = None
    /\ client = None
    /\ invocation = None
    /\ calls = <<>>
    /\ response = None
    /\ result = None
    /\ envelope = None
    /\ previous = None
    /\ peer = Idle

\* ---------------------------------------------------------------------------
\* Worker fetch handler
\* ---------------------------------------------------------------------------
createMixpanelClient(credentials) == Some(credentials)

Answer(req, status, message) ==
    /\ pc' = "done"
    /\ inbound' = Some(req)
    /\ httpResponse' = Some([status |-> status, message |-> message])
    /\ server' = None
    /\ client' = None
    /\ invocation' = None
    /\ calls' = <<>>
    /\ response' = None
    /\ result' = None
    /\ envelope' = None
    /\ previous' = None
    /\ UNCHANGED peer

\* ---------------------------------------------------------------------------
\* Tool registration: the names each register function passes to server.tool
\* ---------------------------------------------------------------------------
registerAnalyticsTools ==
    { "mixpanel_query_insights", "mixpanel_query_segmentation",
      "mixpanel_query_segmentation_numeric", "mixpanel_query_segmentation_sum",
      "mixpanel_query_segmentation_average", "mixpanel_get_top_events",
      "mixpanel_get_event_names", "mixpanel_query_events",
      "mixpanel_get_event_properties", "mixpanel_get_property_values",
      "mixpanel_get_top_property_values", "mixpanel_execute_jql" }

registerFunnelTools ==
    { "mixpanel_list_funnels", "mixpanel_get_funnel",
      "mixpanel_get_retention", "mixpanel_get_frequency" }

registerProfileTools ==
    { "mixpanel_query_profiles", "mixpanel_get_profile",
      "mixpanel_get_profile_activity", "mixpanel_set_profile_properties",
      "mixpanel_set_profile_properties_once", "mixpanel_increment_profile_properties",
      "mixpanel_append_to_profile_list", "mixpanel_remove_from_profile_list",
      "mixpanel_union_to_profile_list", "mixpanel_unset_profile_properties",
      "mixpanel_delete_profile" }

registerEventTools ==
    { "mixpanel_export_events", "mixpanel_track_event",
      "mixpanel_track_events", "mixpanel_import_events" }

registerGroupTools ==
    { "mixpanel_set_group_properties", "mixpanel_set_group_properties_once",
      "mixpanel_unset_group_properties", "mixpanel_delete_group" }

registerIdentityTools ==
    { "mixpanel_create_identity", "mixpanel_create_alias",
      "mixpanel_merge_identities" }

registerCohortTools ==
    { "mixpanel_list_cohorts" }

registerManagementTools ==
    { "mixpanel_list_annotations", "mixpanel_create_annotation",
      "mixpanel_get_annotation", "mixpanel_update_annotation",
      "mixpanel_delete_annotation", "mixpanel_list_lookup_tables",
      "mixpanel_create_lookup_table", "mixpanel_list_schemas",
      "mixpanel_get_schema", "mixpanel_create_schema",
      "mixpanel_delete_schema" }

registerGDPRTools ==
    { "mixpanel_create_data_retrieval", "mixpanel_get_data_retrieval_status",
      "mixpanel_create_data_deletion", "mixpanel_get_data_deletion_status",
      "mixpanel_cancel_data_deletion" }

\* the tools of the server createStatelessServer returns
McpServerTools ==
    registerAnalyticsTools \cup registerFunnelTools \cup registerProfileTools
    \cup registerEventTools \cup registerGroupTools \cup registerIdentityTools
    \cup registerCohortTools \cup registerManagementTools \cup registerGDPRTools
    \cup {"mixpanel_test_connection"}

createStatelessServer(req, credentials) ==
    /\ pc' = "serving"
    /\ inbound' = Some(req)
    /\ httpResponse' = None
    /\ server' = Some(McpServerTools)
    /\ client' = createMixpanelClient(credentials)
    /\ invocation' = None
    /\ calls' = <<>>
    /\ response' = None
    /\ result' = None
    /\ envelope' = None
    /\ previous' = None
    /\ UNCHANGED peer

FetchMcp(req) ==
    LET credentials == parseTenantCredentials(req.headers)
        error == validateCredentials(credentials)
    IN  IF IsSome(error)
        THEN Answer(req, 401, error[1])
        ELSE createStatelessServer(req, credentials)

\* the handler run on one inbound request drawn from the given paths, methods and
\* header sets
FetchFrom(paths, methods, headerSets) ==
    /\ pc = "idle"
    /\ \E path \in paths, method \in methods, headers \in headerSets :
         LET req == [path |-> path, method |-> method, headers |-> headers]
         IN  IF path = "/health" THEN Answer(req, 200, <<"ok">>)
             ELSE IF path = "/mcp" /\ method = "POST" THEN FetchMcp(req)
             ELSE IF path = "/sse" THEN Answer(req, 501, <<"SSE endpoint requires Durable Objects.">>)
             ELSE Answer(req, 200, <<"Mixpanel MCP Server - Multi-tenant analytics API">>)

Fetch == FetchFrom(InboundPaths, InboundMethods, InboundHeaders)

\* the request leaves the worker: its server, client and credentials are dropped
Return ==
    /\ pc = "done"
    /\ pc' = "idle"
    /\ inbound' = None
    /\ httpResponse' = None
    /\ server' = None
    /\ client' = None
    /\ invocation' = None
    /\ calls' = <<>>
    /\ response' = None
    /\ result' = None
    /\ envelope' = None
    /\ previous' = None
    /\ UNCHANGED peer

\* ---------------------------------------------------------------------------
\* API client: base URLs
\* ---------------------------------------------------------------------------
DATA_API_URL == "https://data.mixpanel.com/api/2.0"

MIXPANEL_API_URL == "https://mixpanel.com/api/2.0"

EU_DATA_API_URL == "https://data-eu.mixpanel.com/api/2.0"

EU_MIXPANEL_API_URL == "https://eu.mixpanel.com/api/2.0"

INGESTION_API_URL == "https://api.mixpanel.com"

EU_INGESTION_API_URL == "https://api-eu.mixpanel.com"

APP_API_URL == "https://mixpanel.com/api/app"

EU_APP_API_URL == "https://eu.mixpanel.com/api/app"

getDataApiUrl(credentials) ==
    IF credentials.euResident THEN EU_DATA_API_URL ELSE DATA_API_URL

getMixpanelApiUrl(credentials) ==
    IF credentials.euResident THEN EU_MIXPANEL_API_URL ELSE MIXPANEL_API_URL

getIngestionApiUrl(credentials) ==
    IF credentials.euResident THEN EU_INGESTION_API_URL ELSE INGESTION_API_URL

getAppApiUrl(credentials) ==
    IF credentials.euResident THEN EU_APP_API_URL ELSE APP_API_URL

\* ---------------------------------------------------------------------------
\* API client: headers, JSON objects, query strings
\* ---------------------------------------------------------------------------
\* an object literal is a sequence of <<key, value>> pairs in insertion order
NoHeaders == [h \in {} |-> <<>>]

\* { ...base, ...over }
Spread(base, over) == over @@ base

JSON_HEADERS == ("Content-Type" :> <<"application/json">>)

getAuthHeaders(credentials) ==
    ("Authorization" :> (<<"Basic ">> \o btoa(credentials.username \o <<":">> \o credentials.secret)))
    @@ ("Content-Type" :> <<"application/json">>)
    @@ ("Accept" :> <<"application/json">>)

HasKey(obj, k) == \E i \in 1..Len(obj) : obj[i][1] = k

Get(obj, k) == obj[CHOOSE i \in 1..Len(obj) : obj[i][1] = k][2]

\* obj[k] = v: an existing key keeps its position, a new key is appended
Set(obj, k, v) ==
    IF HasKey(obj, k)
    THEN [i \in 1..Len(obj) |-> IF obj[i][1] = k THEN <<k, v>> ELSE obj[i]]
    ELSE Append(obj, <<k, v>>)

\* obj[k] = v only when the optional v is given
SetIf(obj, k, cond, v) == IF cond THEN Set(obj, k, v) ELSE obj

RECURSIVE SpreadObj(_, _)
SpreadObj(obj, more) ==
    IF more = <<>> THEN obj
    ELSE SpreadObj(Set(obj, more[1][1], more[1][2]), Tail(more))

\* JSON.stringify of a list of strings
RECURSIVE JoinQuoted(_)
JoinQuoted(list) ==
    IF list = <<>> THEN <<>>
    ELSE <<"\"">> \o list[1] \o <<"\"">>
         \o (IF Len(list) > 1 THEN <<",">> ELSE <<>>) \o JoinQuoted(Tail(list))

StringifyList(list) == <<"[">> \o JoinQuoted(list) \o <<"]">>

\* application/x-www-form-urlencoded serialisation of one token
FormEncodeToken(t) ==
    CASE t = "[" -> "%5B"
      [] t = "]" -> "%5D"
      [] t = "\"" -> "%22"
      [] t = "," -> "%2C"
      [] t = "/" -> "%2F"
      [] t = "?" -> "%3F"
      [] t = "&" -> "%26"
      [] t = "=" -> "%3D"
      [] t = "#" -> "%23"
      [] t = ":" -> "%3A"
      [] t = " " -> "+"
      [] OTHER -> t

FormEncode(s) == [i \in 1..Len(s) |-> FormEncodeToken(s[i])]

\* URLSearchParams.prototype.toString
RECURSIVE URLSearchParams(_)
URLSearchParams(pairs) ==
    IF pairs = <<>> THEN <<>>
    ELSE <<pairs[1][1], "=">> \o FormEncode(pairs[1][2])
         \o (IF Len(pairs) > 1 THEN <<"&">> ELSE <<>>) \o URLSearchParams(Tail(pairs))

\* String(n) of a number
String(n) == <<ToString(n)>>

\* ---------------------------------------------------------------------------
\* Remote responses
\* ---------------------------------------------------------------------------
RetryAfterValues ==
    { None, Some(<<>>), Some(<<"3","0">>), Some(<<"a","b","c">>), Some(<<"7","x">>) }

ContentTypes ==
    { None, Some(<<"application/json", "; charset=utf-8">>), Some(<<"text/plain">>) }

\* the JSON texts that occur as one token of a response body
EVENT_SIGNUP ==
    "{\"event\":\"Signup\",\"properties\":{\"time\":1700000000,\"distinct_id\":\"u1\",\"plan\":\"pro\"}}"

EVENT_LOGIN ==
    "{\"event\":\"Login\",\"properties\":{\"distinct_id\":\"u2\",\"time\":1700000100}}"

EVENT_PING == "{\"event\":\"Ping\",\"properties\":{}}"

STATUS_0 == "{\"status\":0}"

JsonTexts == {EVENT_SIGNUP, EVENT_LOGIN, EVENT_PING, STATUS_0}

\* the value of a JSON text
JsonValue(t) ==
    CASE t = EVENT_SIGNUP ->
           << <<"event", <<"Signup">>>>,
              <<"properties", << <<"time", 1700000000>>, <<"distinct_id", <<"u1">>>>,
                                 <<"plan", <<"pro">>>> >>>> >>
      [] t = EVENT_LOGIN ->
           << <<"event", <<"Login">>>>,
              <<"properties", << <<"distinct_id", <<"u2">>>>, <<"time", 1700000100>> >>>> >>
      [] t = EVENT_PING -> << <<"event", <<"Ping">>>>, <<"properties", <<>>>> >>
      [] t = STATUS_0 -> << <<"status", 0>> >>

ResponseBodies == {<<STATUS_0>>}

\* a body that is no JSON text, and one of two NDJSON lines
HTML_BODY == <<"<html>">>

NDJSON_BODY == <<EVENT_SIGNUP, "\n", EVENT_LOGIN, "\n">>

Responses ==
    [ status : {200}, retryAfter : {None}, contentType : ContentTypes,
      body : ResponseBodies ]
    \cup
    [ status : {200}, retryAfter : {None},
      contentType : {Some(<<"application/json", "; charset=utf-8">>)},
      body : {HTML_BODY, NDJSON_BODY} ]
    \cup
    [ status : {401, 403, 500}, retryAfter : {None},
      contentType : {Some(<<"text/plain">>)}, body : ResponseBodies ]
    \cup
    [ status : {429}, retryAfter : RetryAfterValues,
      contentType : {Some(<<"text/plain">>)}, body : ResponseBodies ]

\* Response.ok
Ok(resp) == resp.status >= 200 /\ resp.status <= 299

\* contentType?.includes('application/json')
IncludesJson(contentType) ==
    IsSome(contentType)
    /\ \E i \in 1..Len(contentType[1]) : contentType[1][i] = "application/json"

\* ---------------------------------------------------------------------------
\* Errors thrown by the client, as the arguments of their constructors
\* ---------------------------------------------------------------------------
RateLimitError(message, retryAfter) ==
    [kind |-> "RateLimitError", message |-> message, retryAfter |-> retryAfter]

AuthenticationError(message) ==
    [kind |-> "AuthenticationError", message |-> message]

ApiError(message, statusCode) ==
    [kind |-> "ApiError", message |-> message, statusCode |-> statusCode]

Returned(value) == [kind |-> "returned", value |-> value]

\* ---------------------------------------------------------------------------
\* API client: issuing a call
\* ---------------------------------------------------------------------------
Ready == pc = "serving" /\ IsSome(client)

\* a call of a client operation: the method's name and the arguments it was given
Call(op, args) == [op |-> op, args |-> args]

\* the argument list of a method without parameters
NoArgs == [none |-> TRUE]

\* credentials kept in one slot of the process, which the client of the other
\* request in flight has overwritten
CredentialsOfLatestClient == IF IsSome(peer.client) THEN peer.client[1] ELSE client[1]

\* this.credentials
Credentials == client[1]

\* ---------------------------------------------------------------------------
\* Tool handlers
\* ---------------------------------------------------------------------------
\* formatResponse: the success envelope carrying the result
formatResponse(value) == [kind |-> "envelope", isError |-> FALSE, text |-> value]

\* formatErrorResponse: the error envelope { success: false, error: <message> }
formatErrorResponse(error) ==
    [ kind |-> "envelope", isError |-> TRUE,
      text |-> << <<"success", FALSE>>, <<"error", error.message>> >> ]

\* an exception that leaves the handler
Raised(error) == [kind |-> "exception", error |-> error]

\* a handler whose try block has no catch
toolHandlerWithoutCatch(op, via, outcome) ==
    IF outcome.kind /= "returned" THEN Raised(outcome)
    ELSE formatResponse(outcome.value)

\* the handler of the tool that calls the operation op: async (params) => { try {
\* const result = await client.op(params); return formatResponse(result); }
\* catch (error) { return formatErrorResponse(error); } }; the tools of the
\* operations that answer { status } return { success: result.status === 1,
\* ...result }, with a message for the two deletions
toolHandler(op, via, outcome) ==
    IF outcome.kind /= "returned" THEN formatErrorResponse(outcome)
    ELSE IF via = "status" THEN
        formatResponse(<< <<"success", outcome.value[2] = 1>> >>
                       \o (IF op = "deleteProfile" THEN << <<"message", <<"Profile deleted">>>> >>
                           ELSE IF op = "deleteGroup"
                           THEN << <<"message", <<"Group deleted">>>> >>
                           ELSE <<>>)
                       \o << <<"status", outcome.value[2]>> >>)
    ELSE formatResponse(outcome.value)

\* the operation throws before it reaches fetch
Throw(call, error) ==
    /\ Ready
    /\ pc' = "done"
    /\ invocation' = Some([op |-> call.op, via |-> "none", args |-> call.args])
    /\ calls' = <<>>
    /\ response' = None
    /\ result' = Some(error)
    /\ envelope' = Some(toolHandler(call.op, "none", error))
    /\ UNCHANGED <<inbound, httpResponse, server, client, previous, peer>>

\* fetch called with a headers object the client keeps and adds to on every call
fetchKeepingHeaders(call, via, url, method, headers, body) ==
    /\ Ready
    /\ pc' = "awaiting"
    /\ invocation' = Some([op |-> call.op, via |-> via, args |-> call.args])
    /\ calls' = << [url |-> url, method |-> method,
                    headers |-> IF calls = <<>> THEN headers ELSE headers @@ calls[1].headers,
                    body |-> body] >>
    /\ response' = None
    /\ result' = None
    /\ envelope' = None
    /\ UNCHANGED <<inbound, httpResponse, server, client, previous, peer>>

\* the operation calls fetch(url, init) and awaits the response
fetch(call, via, url, method, headers, body) ==
    /\ Ready
    /\ pc' = "awaiting"
    /\ invocation' = Some([op |-> call.op, via |-> via, args |-> call.args])
    /\ calls' = << [url |-> url, method |-> method, headers |-> headers, body |-> body] >>
    /\ response' = None
    /\ result' = None
    /\ envelope' = None
    /\ UNCHANGED <<inbound, httpResponse, server, client, previous, peer>>

NoOptions == [method |-> None, headers |-> NoHeaders, body |-> None]

Post(body) == [method |-> Some("POST"), headers |-> NoHeaders, body |-> Some(body)]

Method(m) == [method |-> Some(m), headers |-> NoHeaders, body |-> None]

JSONBody(value) == <<"json", value>>

\* request sending only the headers of its options
MergeAuthHeadersOptionsOnly(credentials, options) == options.headers

MergeAuthHeaders(credentials, options) ==
    Spread(getAuthHeaders(credentials), options.headers)

\* request putting the service-account secret into the query string as well
requestWithSecretInQuery(op, baseUrl, endpoint, options) ==
    fetch(op, "request", <<baseUrl>> \o endpoint \o <<"&api_secret=">> \o Credentials.secret,
          IF IsSome(options.method) THEN options.method[1] ELSE "GET",
          MergeAuthHeaders(Credentials, options),
          options.body)

request(op, baseUrl, endpoint, options) ==
    fetch(op, "request", <<baseUrl>> \o endpoint,
          IF IsSome(options.method) THEN options.method[1] ELSE "GET",
          MergeAuthHeaders(Credentials, options),
          options.body)

\* requestIngestion adding the Basic-auth header whatever useProjectToken is
IngestionHeadersAlwaysBasic(credentials, useProjectToken) ==
    JSON_HEADERS @@ ("Accept" :> <<"application/json">>)
    @@ ("Authorization" :> (<<"Basic ">> \o btoa(credentials.username \o <<":">> \o credentials.secret)))

IngestionHeaders(credentials, useProjectToken) ==
    IF useProjectToken
    THEN JSON_HEADERS @@ ("Accept" :> <<"application/json">>)
    ELSE JSON_HEADERS @@ ("Accept" :> <<"application/json">>)
         @@ ("Authorization" :> (<<"Basic ">> \o btoa(credentials.username \o <<":">> \o credentials.secret)))

requestIngestion(op, endpoint, data, useProjectToken) ==
    fetch(op, "requestIngestion", <<getIngestionApiUrl(Credentials)>> \o endpoint,
          "POST", IngestionHeaders(Credentials, useProjectToken), Some(JSONBody(data)))

\* the inline fetch of the ingestion operations that answer { status: ok ? 1 : 0 }
fetchStatus(op, endpoint, data) ==
    fetch(op, "status", <<getIngestionApiUrl(Credentials)>> \o endpoint,
          "POST", JSON_HEADERS, Some(JSONBody(data)))

\* ---------------------------------------------------------------------------
\* API client: handling the response
\* ---------------------------------------------------------------------------
\* String.prototype.split on a one-character separator
RECURSIVE split(_, _)
split(s, sep) ==
    IF \A i \in 1..Len(s) : s[i] /= sep THEN <<s>>
    ELSE LET k == CHOOSE i \in 1..Len(s) : s[i] = sep /\ \A j \in 1..(i - 1) : s[j] /= sep
         IN  <<SubSeq(s, 1, k - 1)>> \o split(SubSeq(s, k + 1, Len(s)), sep)

WhiteSpace == {" ", "\n", "\r", "\t"}

\* String.prototype.trim
RECURSIVE trim(_)
trim(s) ==
    IF s = <<>> THEN s
    ELSE IF s[1] \in WhiteSpace THEN trim(Tail(s))
    ELSE IF s[Len(s)] \in WhiteSpace THEN trim(SubSeq(s, 1, Len(s) - 1))
    ELSE s

SyntaxError(message) == [kind |-> "SyntaxError", message |-> message]

TypeError(message) == [kind |-> "TypeError", message |-> message]

\* JSON.parse: white space around the one JSON text is skipped, anything else throws
JSONParse(text) ==
    LET t == trim(text)
    IN  IF Len(t) = 1 /\ t[1] \in JsonTexts
        THEN Returned(JsonValue(t[1]))
        ELSE SyntaxError(<<"Unexpected token in JSON">>)

\* obj[k], undefined when the object has no such key
GetOpt(obj, k) == IF HasKey(obj, k) THEN Some(Get(obj, k)) ELSE None

\* response.json(): the body parsed as JSON (the text stands for its value), or the
\* SyntaxError of a body that is no JSON text
ResponseJson(resp) ==
    IF JSONParse(resp.body).kind = "returned"
    THEN Returned(<<"json", resp.body>>)
    ELSE JSONParse(resp.body)

\* request testing response.ok before the 429, 401 and 403 statuses
requestResponseOkFirst(resp) ==
    IF ~Ok(resp) THEN
        ApiError(<<"API error: ">> \o String(resp.status) \o <<" - ">> \o resp.body, Some(resp.status))
    ELSE IF IncludesJson(resp.contentType) THEN
        ResponseJson(resp)
    ELSE
        Returned(<<"text", resp.body>>)

requestResponse(resp) ==
    IF resp.status = 429 THEN
        RateLimitError(<<"Rate limit exceeded">>,
                       IF Truthy(resp.retryAfter) THEN parseInt(resp.retryAfter[1]) ELSE 60)
    ELSE IF resp.status = 401 \/ resp.status = 403 THEN
        AuthenticationError(<<"Invalid credentials">>)
    ELSE IF ~Ok(resp) THEN
        ApiError(<<"API error: ">> \o String(resp.status) \o <<" - ">> \o resp.body, Some(resp.status))
    ELSE IF IncludesJson(resp.contentType) THEN
        ResponseJson(resp)
    ELSE
        Returned(<<"text", resp.body>>)

requestIngestionResponse(resp) ==
    IF resp.status = 429 THEN
        RateLimitError(<<"Rate limit exceeded">>, 60)
    ELSE IF ~Ok(resp) THEN
        ApiError(<<"Ingestion API error: ">> \o String(resp.status) \o <<" - ">> \o resp.body,
                 Some(resp.status))
    ELSE
        ResponseJson(resp)

\* the record exportEvents makes of one parsed line
ExportedEventTimeOfLine(parsed) ==
    IF ~HasKey(parsed, "properties")
    THEN TypeError(<<"Cannot read properties of undefined (reading 'time')">>)
    ELSE Returned([ event |-> GetOpt(parsed, "event"),
                    properties |-> Get(parsed, "properties"),
                    time |-> GetOpt(parsed, "time"),
                    distinctId |-> GetOpt(Get(parsed, "properties"), "distinct_id") ])

ExportedEvent(parsed) ==
    IF ~HasKey(parsed, "properties")
    THEN TypeError(<<"Cannot read properties of undefined (reading 'time')">>)
    ELSE Returned([ event |-> GetOpt(parsed, "event"),
                    properties |-> Get(parsed, "properties"),
                    time |-> GetOpt(Get(parsed, "properties"), "time"),
                    distinctId |-> GetOpt(Get(parsed, "properties"), "distinct_id") ])

\* lines.map(...): the records of the lines, or the first error thrown on the way
RECURSIVE MapLines(_, _)
MapLines(lines, records) ==
    IF lines = <<>> THEN Returned(<<"events", records>>)
    ELSE LET parsed == JSONParse(lines[1])
         IN  IF parsed.kind /= "returned" THEN parsed
             ELSE LET record == ExportedEvent(parsed.value)
                  IN  IF record.kind /= "returned" THEN record
                      ELSE MapLines(Tail(lines), Append(records, record.value))

\* text.trim().split('\n').filter(Boolean)
NonEmptyLines(text) == SelectSeq(split(trim(text), "\n"), LAMBDA line : line /= <<>>)

exportEventsResponse(resp) ==
    IF resp.status = 429 THEN
        RateLimitError(<<"Rate limit exceeded">>, 60)
    ELSE IF ~Ok(resp) THEN
        ApiError(<<"Export failed: ">> \o String(resp.status) \o <<" - ">> \o resp.body,
                 Some(resp.status))
    ELSE
        MapLines(NonEmptyLines(resp.body), <<>>)

\* the status taken from the body the remote answered, not from the HTTP status
statusResponseFromBody(resp) ==
    IF ~Ok(resp) THEN Returned(<<"status", 0>>)
    ELSE LET parsed == JSONParse(resp.body)
         IN  IF parsed.kind /= "returned" THEN parsed
             ELSE Returned(<<"status", IF HasKey(parsed.value, "status")
                                       THEN Get(parsed.value, "status") ELSE 1>>)

statusResponse(resp) ==
    Returned(<<"status", IF Ok(resp) THEN 1 ELSE 0>>)

\* the upload's error built without the HTTP status
lookupTableResponseWithoutStatus(resp) ==
    IF ~Ok(resp) THEN
        ApiError(<<"Failed to create lookup table: ">> \o resp.body, None)
    ELSE
        Returned(<<"status", "ok">>)

lookupTableResponse(resp) ==
    IF ~Ok(resp) THEN
        ApiError(<<"Failed to create lookup table: ">> \o resp.body, Some(resp.status))
    ELSE
        Returned(<<"status", "ok">>)

\* what the operation does with the outcome of its request helper: testConnection
\* catches every error, four operations replace the returned data by
\* { success: true }; the other operations hand the outcome on (exportEvents has
\* shaped its records in exportEventsResponse; the reshaping of the other query
\* results into their result types is left out of the value)
Finish(op, outcome) ==
    IF op = "testConnection" THEN
        IF outcome.kind = "returned"
        THEN Returned(<<"connected", TRUE>>)
        ELSE Returned(<<"connected", FALSE>>)
    ELSE IF op \in {"deleteAnnotation", "createOrUpdateSchema", "deleteSchema",
                    "cancelDataDeletion"} /\ outcome.kind = "returned" THEN
        Returned(<<"success", TRUE>>)
    ELSE outcome

\* the awaited fetch resolving, with the call issued once more after a 429
RespondWithRetryOn429(responses) ==
    /\ pc = "awaiting"
    /\ \E resp \in responses :
         IF resp.status = 429 /\ Len(calls) < 2
         THEN /\ calls' = Append(calls, calls[1])
              /\ response' = Some(resp)
              /\ result' = None
              /\ pc' = "awaiting"
              /\ UNCHANGED <<inbound, httpResponse, server, client, invocation, envelope,
                             previous, peer>>
         ELSE /\ response' = Some(resp)
              /\ result' = Some(Finish(invocation[1].op, requestResponse(resp)))
              /\ envelope' = None
              /\ pc' = "done"
              /\ UNCHANGED <<inbound, httpResponse, server, client, invocation, calls,
                             previous, peer>>

\* the awaited fetch resolves with one of the given responses
RespondWith(responses) ==
    /\ pc = "awaiting"
    /\ \E resp \in responses :
         LET via == invocation[1].via
             outcome ==
                 CASE via = "request" -> requestResponse(resp)
                   [] via = "requestIngestion" -> requestIngestionResponse(resp)
                   [] via = "exportEvents" -> exportEventsResponse(resp)
                   [] via = "status" -> statusResponse(resp)
                   [] via = "lookupTable" -> lookupTableResponse(resp)
         IN  /\ response' = Some(resp)
             /\ result' = Some(Finish(invocation[1].op, outcome))
             /\ envelope' = Some(toolHandler(invocation[1].op, via,
                                             Finish(invocation[1].op, outcome)))
    /\ pc' = "done"
    /\ UNCHANGED <<inbound, httpResponse, server, client, invocation, calls, previous,
                   peer>>

\* the awaited fetch rejects: the network failed before any response arrived
NetworkFailure ==
    /\ pc = "awaiting"
    /\ LET outcome == Finish(invocation[1].op, TypeError(<<"fetch failed">>))
       IN  /\ result' = Some(outcome)
           /\ envelope' = Some(toolHandler(invocation[1].op, invocation[1].via, outcome))
    /\ pc' = "done"
    /\ UNCHANGED <<inbound, httpResponse, server, client, invocation, calls, response,
                   previous, peer>>

Respond == RespondWith(Responses)

\* `${value}` of a value that may be undefined
Interpolate(o) == IF IsSome(o) THEN o[1] ELSE <<"undefined">>

\* ---------------------------------------------------------------------------
\* Operation parameters
\* ---------------------------------------------------------------------------
Opt(S) == {None} \cup {Some(x) : x \in S}

\* a JavaScript number is truthy exactly when it is neither 0 nor NaN
TruthyNum(o) == IsSome(o) /\ o[1] /= 0

FromDate == <<"2024-01-01">>

ToDate == <<"2024-01-31">>

EventNames == {<<"Signup">>}

Wheres == {<<"properties.plan", "=", "=", "\"", "pro", "\"">>}

Units == {<<"day">>}

EventTypes == {<<"general">>}

PropertyNames == {<<"plan">>}

OptNumbers == {None, Some(0), Some(5)}

DistinctIds == {<<"u1">>}

\* ---------------------------------------------------------------------------
\* Connection
\* ---------------------------------------------------------------------------
testConnection ==
    /\ Ready
    /\ request(Call("testConnection", NoArgs), getMixpanelApiUrl(Credentials),
               <<"/engage?project_id=">> \o Credentials.projectId,
               Post(JSONBody(<< <<"page", 0>>, <<"limit", 1>> >>)))

\* ---------------------------------------------------------------------------
\* Query API
\* ---------------------------------------------------------------------------
DateRangeQuery(credentials) ==
    << <<"project_id", credentials.projectId>>, <<"from_date", FromDate>>,
       <<"to_date", ToDate>> >>

\* queryInsights sending interval=day when the caller gives no interval
queryInsightsDefaultInterval ==
    /\ Ready
    /\ \E event \in Opt(EventNames), interval \in Opt(Units), where \in Opt(Wheres),
          groupBy \in Opt({<< <<"plan">> >>}) :
         LET q0 == DateRangeQuery(Credentials)
             q1 == SetIf(q0, "event", Truthy(event), StringifyList(<<event[1]>>))
             q2 == Set(q1, "interval", IF Truthy(interval) THEN interval[1] ELSE <<"day">>)
             q3 == SetIf(q2, "where", Truthy(where), where[1])
             q4 == SetIf(q3, "on", IsSome(groupBy), StringifyList(groupBy[1]))
         IN  request(Call("queryInsights",
                          [ fromDate |-> FromDate, toDate |-> ToDate, event |-> event,
                            interval |-> interval, where |-> where, groupBy |-> groupBy ]),
                     getMixpanelApiUrl(Credentials),
                     <<"/insights?">> \o URLSearchParams(q4), NoOptions)

\* client.queryInsights(params)
queryInsightsWith(params) ==
    LET q0 == << <<"project_id", Credentials.projectId>>, <<"from_date", params.fromDate>>,
                 <<"to_date", params.toDate>> >>
        q1 == SetIf(q0, "event", Truthy(params.event), StringifyList(<<params.event[1]>>))
        q2 == SetIf(q1, "interval", Truthy(params.interval), params.interval[1])
        q3 == SetIf(q2, "where", Truthy(params.where), params.where[1])
        q4 == SetIf(q3, "on", IsSome(params.groupBy), StringifyList(params.groupBy[1]))
    IN  request(Call("queryInsights", params), getMixpanelApiUrl(Credentials),
                <<"/insights?">> \o URLSearchParams(q4), NoOptions)

queryInsights ==
    /\ Ready
    /\ \E event \in Opt(EventNames), interval \in Opt(Units), where \in Opt(Wheres),
          groupBy \in Opt({<< <<"plan">> >>}) :
         queryInsightsWith([ fromDate |-> FromDate, toDate |-> ToDate, event |-> event,
                             interval |-> interval, where |-> where,
                             groupBy |-> groupBy ])

SegmentationQuery(credentials, event) ==
    << <<"project_id", credentials.projectId>>, <<"event", event>>,
       <<"from_date", FromDate>>, <<"to_date", ToDate>> >>

querySegmentation ==
    /\ Ready
    /\ \E event \in EventNames, type \in Opt(EventTypes), unit \in Opt(Units),
          where \in Opt(Wheres), on \in Opt(PropertyNames) :
         LET q0 == SegmentationQuery(Credentials, event)
             q1 == SetIf(q0, "type", Truthy(type), type[1])
             q2 == SetIf(q1, "unit", Truthy(unit), unit[1])
             q3 == SetIf(q2, "where", Truthy(where), where[1])
             q4 == SetIf(q3, "on", Truthy(on), on[1])
         IN  request(Call("querySegmentation",
                          [event |-> event, type |-> type, unit |-> unit, where |-> where, on |-> on]),
                     getMixpanelApiUrl(Credentials),
                     <<"/segmentation?">> \o URLSearchParams(q4), NoOptions)

querySegmentationNumeric ==
    /\ Ready
    /\ \E event \in EventNames, on \in PropertyNames, type \in Opt(EventTypes),
          unit \in Opt(Units), where \in Opt(Wheres), buckets \in OptNumbers :
         LET q0 == Append(SegmentationQuery(Credentials, event), <<"on", on>>)
             q1 == SetIf(q0, "type", Truthy(type), type[1])
             q2 == SetIf(q1, "unit", Truthy(unit), unit[1])
             q3 == SetIf(q2, "where", Truthy(where), where[1])
             q4 == SetIf(q3, "buckets", TruthyNum(buckets), String(buckets[1]))
         IN  request(Call("querySegmentationNumeric",
                          [event |-> event, on |-> on, type |-> type, unit |-> unit, where |-> where, buckets |-> buckets]),
                     getMixpanelApiUrl(Credentials),
                     <<"/segmentation/numeric?">> \o URLSearchParams(q4), NoOptions)

querySegmentationSum ==
    /\ Ready
    /\ \E event \in EventNames, on \in PropertyNames, unit \in Opt(Units),
          where \in Opt(Wheres) :
         LET q0 == Append(SegmentationQuery(Credentials, event), <<"on", on>>)
             q1 == SetIf(q0, "unit", Truthy(unit), unit[1])
             q2 == SetIf(q1, "where", Truthy(where), where[1])
         IN  request(Call("querySegmentationSum",
                          [event |-> event, on |-> on, unit |-> unit, where |-> where]),
                     getMixpanelApiUrl(Credentials),
                     <<"/segmentation/sum?">> \o URLSearchParams(q2), NoOptions)

querySegmentationAverage ==
    /\ Ready
    /\ \E event \in EventNames, on \in PropertyNames, unit \in Opt(Units),
          where \in Opt(Wheres) :
         LET q0 == Append(SegmentationQuery(Credentials, event), <<"on", on>>)
             q1 == SetIf(q0, "unit", Truthy(unit), unit[1])
             q2 == SetIf(q1, "where", Truthy(where), where[1])
         IN  request(Call("querySegmentationAverage",
                          [event |-> event, on |-> on, unit |-> unit, where |-> where]),
                     getMixpanelApiUrl(Credentials),
                     <<"/segmentation/average?">> \o URLSearchParams(q2), NoOptions)

\* ---------------------------------------------------------------------------
\* Data Export API
\* ---------------------------------------------------------------------------
exportEvents ==
    /\ Ready
    /\ \E event \in Opt({<< <<"Signup">> >>, << <<"Signup">>, <<"Login">> >>}),
          where \in Opt(Wheres), limit \in OptNumbers :
         LET q0 == DateRangeQuery(Credentials)
             q1 == SetIf(q0, "event", IsSome(event), StringifyList(event[1]))
             q2 == SetIf(q1, "where", Truthy(where), where[1])
             q3 == SetIf(q2, "limit", TruthyNum(limit), String(limit[1]))
         IN  fetch(Call("exportEvents", [event |-> event, where |-> where, limit |-> limit]),
                   "exportEvents",
                   <<getDataApiUrl(Credentials), "/export?">> \o URLSearchParams(q3),
                   "GET", getAuthHeaders(Credentials), None)

\* ---------------------------------------------------------------------------
\* Query API: funnels and retention
\* ---------------------------------------------------------------------------
getFunnel ==
    /\ Ready
    /\ \E funnelId \in {42}, interval \in Opt(Units), length \in OptNumbers,
          lengthUnit \in Opt(Units) :
         LET q0 == << <<"project_id", Credentials.projectId>>,
                      <<"funnel_id", String(funnelId)>>,
                      <<"from_date", FromDate>>, <<"to_date", ToDate>> >>
             q1 == SetIf(q0, "interval", Truthy(interval), interval[1])
             q2 == SetIf(q1, "length", TruthyNum(length), String(length[1]))
             q3 == SetIf(q2, "length_unit", Truthy(lengthUnit), lengthUnit[1])
         IN  request(Call("getFunnel",
                          [funnelId |-> funnelId, interval |-> interval, length |-> length, lengthUnit |-> lengthUnit]),
                     getMixpanelApiUrl(Credentials),
                     <<"/funnels?">> \o URLSearchParams(q3), NoOptions)

listFunnels ==
    /\ Ready
    /\ request(Call("listFunnels", NoArgs), getMixpanelApiUrl(Credentials),
               <<"/funnels/list?">>
               \o URLSearchParams(<< <<"project_id", Credentials.projectId>> >>),
               NoOptions)

RetentionParams ==
    { [bornEvent |-> None, event |-> None, retentionType |-> None, unit |-> None],
      [bornEvent |-> Some(<<"Signup">>), event |-> Some(<<"Login">>),
       retentionType |-> Some(<<"birth">>), unit |-> Some(<<"day">>)] }

getRetention ==
    /\ Ready
    /\ \E params \in RetentionParams, interval \in OptNumbers,
          intervalCount \in OptNumbers :
         LET q0 == DateRangeQuery(Credentials)
             q1 == SetIf(q0, "born_event", Truthy(params.bornEvent), params.bornEvent[1])
             q2 == SetIf(q1, "event", Truthy(params.event), params.event[1])
             q3 == SetIf(q2, "retention_type", Truthy(params.retentionType),
                         params.retentionType[1])
             q4 == SetIf(q3, "interval", TruthyNum(interval), String(interval[1]))
             q5 == SetIf(q4, "interval_count", TruthyNum(intervalCount),
                         String(intervalCount[1]))
             q6 == SetIf(q5, "unit", Truthy(params.unit), params.unit[1])
         IN  request(Call("getRetention",
                          [params |-> params, interval |-> interval, intervalCount |-> intervalCount]),
                     getMixpanelApiUrl(Credentials),
                     <<"/retention?">> \o URLSearchParams(q6), NoOptions)

getFrequency ==
    /\ Ready
    /\ \E event \in EventNames, where \in Opt(Wheres), on \in Opt(PropertyNames) :
         LET q0 == Append(DateRangeQuery(Credentials), <<"event", event>>)
             q1 == SetIf(q0, "where", Truthy(where), where[1])
             q2 == SetIf(q1, "on", Truthy(on), on[1])
         IN  request(Call("getFrequency", [event |-> event, where |-> where, on |-> on]),
                     getMixpanelApiUrl(Credentials),
                     <<"/retention/frequency?">> \o URLSearchParams(q2), NoOptions)

\* ---------------------------------------------------------------------------
\* Query API: user profiles
\* ---------------------------------------------------------------------------
queryProfiles ==
    /\ Ready
    /\ \E where \in Opt(Wheres), sessionId \in Opt({<<"s-1">>}), page \in OptNumbers,
          outputProperties \in Opt({<< <<"plan">> >>}) :
         LET b0 == << <<"project_id", Credentials.projectId>>,
                      <<"page", IF TruthyNum(page) THEN page[1] ELSE 0>> >>
             b1 == SetIf(b0, "where", Truthy(where), where[1])
             b2 == SetIf(b1, "session_id", Truthy(sessionId), sessionId[1])
             b3 == SetIf(b2, "output_properties", IsSome(outputProperties),
                         outputProperties[1])
         IN  request(Call("queryProfiles",
                          [where |-> where, sessionId |-> sessionId, page |-> page, outputProperties |-> outputProperties]),
                     getMixpanelApiUrl(Credentials), <<"/engage">>,
                     Post(JSONBody(b3)))

getProfile ==
    /\ Ready
    /\ \E distinctId \in DistinctIds :
         request(Call("getProfile", [distinctId |-> distinctId]),
                 getMixpanelApiUrl(Credentials), <<"/engage">>,
                 Post(JSONBody(<< <<"project_id", Credentials.projectId>>,
                                  <<"distinct_id", distinctId>> >>)))

getProfileActivity ==
    /\ Ready
    /\ \E distinctId \in DistinctIds, limit \in OptNumbers, from \in OptNumbers,
          to \in OptNumbers :
         LET q0 == << <<"project_id", Credentials.projectId>>,
                      <<"distinct_id", distinctId>> >>
             q1 == SetIf(q0, "limit", TruthyNum(limit), String(limit[1]))
             q2 == SetIf(q1, "from", TruthyNum(from), String(from[1]))
             q3 == SetIf(q2, "to", TruthyNum(to), String(to[1]))
         IN  request(Call("getProfileActivity",
                          [distinctId |-> distinctId, limit |-> limit, from |-> from, to |-> to]),
                     getMixpanelApiUrl(Credentials),
                     <<"/engage/activity?">> \o URLSearchParams(q3), NoOptions)

\* ---------------------------------------------------------------------------
\* Query API: events
\* ---------------------------------------------------------------------------
\* params.limit || dflt
LimitOr(limit, dflt) == IF TruthyNum(limit) THEN limit[1] ELSE dflt

getTopEvents ==
    /\ Ready
    /\ \E type \in EventTypes, limit \in OptNumbers :
         request(Call("getTopEvents", [type |-> type, limit |-> limit]),
                 getMixpanelApiUrl(Credentials),
                 <<"/events/top?">>
                 \o URLSearchParams(<< <<"project_id", Credentials.projectId>>,
                                       <<"type", type>>,
                                       <<"limit", String(LimitOr(limit, 10))>> >>),
                 NoOptions)

getEventNames ==
    /\ Ready
    /\ \E type \in EventTypes, limit \in OptNumbers :
         request(Call("getEventNames", [type |-> type, limit |-> limit]),
                 getMixpanelApiUrl(Credentials),
                 <<"/events/names?">>
                 \o URLSearchParams(<< <<"project_id", Credentials.projectId>>,
                                       <<"type", type>>,
                                       <<"limit", String(LimitOr(limit, 255))>> >>),
                 NoOptions)

getEventProperties ==
    /\ Ready
    /\ \E eventName \in EventNames :
         request(Call("getEventProperties", [eventName |-> eventName]),
                 getMixpanelApiUrl(Credentials),
                 <<"/events/properties/top?">>
                 \o URLSearchParams(<< <<"project_id", Credentials.projectId>>,
                                       <<"event", eventName>> >>),
                 NoOptions)

getPropertyValues ==
    /\ Ready
    /\ \E event \in EventNames, property \in PropertyNames, limit \in OptNumbers :
         request(Call("getPropertyValues",
                      [event |-> event, property |-> property, limit |-> limit]),
                 getMixpanelApiUrl(Credentials),
                 <<"/events/properties/values?">>
                 \o URLSearchParams(<< <<"project_id", Credentials.projectId>>,
                                       <<"event", event>>, <<"name", property>>,
                                       <<"limit", String(LimitOr(limit, 100))>> >>),
                 NoOptions)

getTopPropertyValues ==
    /\ Ready
    /\ \E event \in EventNames, property \in PropertyNames, limit \in OptNumbers :
         request(Call("getTopPropertyValues",
                      [event |-> event, property |-> property, limit |-> limit]),
                 getMixpanelApiUrl(Credentials),
                 <<"/events/properties/top?">>
                 \o URLSearchParams(<< <<"project_id", Credentials.projectId>>,
                                       <<"event", event>>, <<"name", property>>,
                                       <<"limit", String(LimitOr(limit, 100))>> >>),
                 NoOptions)

queryEvents ==
    /\ Ready
    /\ \E event \in {<< <<"Signup">> >>}, type \in EventTypes, unit \in Opt(Units),
          interval \in OptNumbers, where \in Opt(Wheres) :
         LET q0 == << <<"project_id", Credentials.projectId>>,
                      <<"event", StringifyList(event)>>,
                      <<"from_date", FromDate>>, <<"to_date", ToDate>>,
                      <<"type", type>> >>
             q1 == SetIf(q0, "unit", Truthy(unit), unit[1])
             q2 == SetIf(q1, "interval", TruthyNum(interval), String(interval[1]))
             q3 == SetIf(q2, "where", Truthy(where), where[1])
         IN  request(Call("queryEvents",
                          [event |-> event, type |-> type, unit |-> unit, interval |-> interval, where |-> where]),
                     getMixpanelApiUrl(Credentials),
                     <<"/events?">> \o URLSearchParams(q3), NoOptions)

listCohorts ==
    /\ Ready
    /\ request(Call("listCohorts", NoArgs), getMixpanelApiUrl(Credentials), <<"/cohorts/list">>,
               Post(JSONBody(<< <<"project_id", Credentials.projectId>> >>)))

executeJQL ==
    /\ Ready
    /\ \E script \in {<<"function main() { return Events({}) }">>} :
         request(Call("executeJQL", [script |-> script]),
                 getMixpanelApiUrl(Credentials), <<"/jql">>,
                 Post(JSONBody(<< <<"project_id", Credentials.projectId>>,
                                  <<"script", script>> >>)))

\* ---------------------------------------------------------------------------
\* Ingestion API: events
\* ---------------------------------------------------------------------------
TokenRequired(what) ==
    ApiError(<<"Project token required for ", what, ". Set ", H_PROJECT_TOKEN, " header.">>,
             None)

\* Math.floor(Date.now() / 1000)
Clock == {1700000000}

EventProperties ==
    { None,
      Some(<< <<"plan", <<"pro">>>> >>),
      Some(<< <<"token", <<"other">>>>, <<"distinct_id", <<"u9">>>>, <<"time", 7>> >>) }

trackEvent ==
    /\ Ready
    /\ \E event \in EventNames, distinctId \in DistinctIds,
          properties \in EventProperties, time \in OptNumbers, now \in Clock :
         LET token == Credentials.projectToken
             base == << <<"distinct_id", distinctId>>, <<"token", token[1]>>,
                        <<"time", IF TruthyNum(time) THEN time[1] ELSE now>> >>
             data == << << <<"event", event>>,
                           <<"properties",
                             SpreadObj(base, IF IsSome(properties) THEN properties[1] ELSE <<>>)>> >> >>
         IN  IF ~Truthy(token)
             THEN Throw(Call("trackEvent",
                             [event |-> event, distinctId |-> distinctId, properties |-> properties, time |-> time]),
                        TokenRequired("tracking events"))
             ELSE fetchStatus(Call("trackEvent",
                                   [event |-> event, distinctId |-> distinctId, properties |-> properties, time |-> time]),
                              <<"/track">>, data)

EventBatches ==
    { << [event |-> <<"Signup">>,
          properties |-> << <<"distinct_id", <<"u1">>>> >>] >>,
      << [event |-> <<"Signup">>,
          properties |-> << <<"distinct_id", <<"u1">>>>, <<"time", 5>>,
                            <<"token", <<"other">>>> >>],
         [event |-> <<"Login">>,
          properties |-> << <<"distinct_id", <<"u2">>>>, <<"time", 0>> >>] >> }

\* e.properties.time || now
TimeOr(properties, now) ==
    IF HasKey(properties, "time") /\ Get(properties, "time") /= 0
    THEN Get(properties, "time") ELSE now

trackEvents ==
    /\ Ready
    /\ \E events \in EventBatches, now \in Clock :
         LET token == Credentials.projectToken
             data == [i \in 1..Len(events) |->
                        << <<"event", events[i].event>>,
                           <<"properties",
                             Set(Set(events[i].properties, "token", token[1]),
                                 "time", TimeOr(events[i].properties, now))>> >>]
         IN  IF ~Truthy(token)
             THEN Throw(Call("trackEvents", [events |-> events]),
                        TokenRequired("tracking events"))
             ELSE fetchStatus(Call("trackEvents", [events |-> events]), <<"/track">>, data)

importEvents ==
    /\ Ready
    /\ \E events \in EventBatches :
         LET token == Credentials.projectToken
             data == [i \in 1..Len(events) |->
                        << <<"event", events[i].event>>,
                           <<"properties", Set(events[i].properties, "token", token[1])>> >>]
         IN  IF ~Truthy(token)
             THEN Throw(Call("importEvents", [events |-> events]),
                        TokenRequired("importing events"))
             ELSE requestIngestion(Call("importEvents", [events |-> events]),
                                   <<"/import">>, data, TRUE)

\* ---------------------------------------------------------------------------
\* Ingestion API: user profiles
\* ---------------------------------------------------------------------------
PropertyObjects == {<< <<"plan", <<"pro">>>> >>}

NumberObjects == {<< <<"logins", 1>> >>}

ListValues == {<< <<"a">>, <<"b">> >>}

\* engageRequest adding an $ip field to the envelope
engageRequestWithIp(op, operation, distinctId, data) ==
    LET token == Credentials.projectToken
        payload == << << <<"$token", token[1]>>, <<"$distinct_id", distinctId>>,
                         <<"$ip", <<"0">>>>, <<operation, data>> >> >>
    IN  IF ~Truthy(token)
        THEN Throw(op, TokenRequired("profile operations"))
        ELSE fetchStatus(op, <<"/engage">>, payload)

engageRequest(op, operation, distinctId, data) ==
    LET token == Credentials.projectToken
        payload == << << <<"$token", token[1]>>, <<"$distinct_id", distinctId>>,
                         <<operation, data>> >> >>
    IN  IF ~Truthy(token)
        THEN Throw(op, TokenRequired("profile operations"))
        ELSE fetchStatus(op, <<"/engage">>, payload)

\* setProfileProperties writing under $set_once
setProfilePropertiesAsSetOnce ==
    /\ Ready
    /\ \E distinctId \in DistinctIds, properties \in PropertyObjects :
         engageRequest(Call("setProfileProperties",
                            [distinctId |-> distinctId, properties |-> properties]),
                       "$set_once", distinctId, properties)

setProfileProperties ==
    /\ Ready
    /\ \E distinctId \in DistinctIds, properties \in PropertyObjects :
         engageRequest(Call("setProfileProperties",
                            [distinctId |-> distinctId, properties |-> properties]),
                       "$set", distinctId, properties)

setProfilePropertiesOnce ==
    /\ Ready
    /\ \E distinctId \in DistinctIds, properties \in PropertyObjects :
         engageRequest(Call("setProfilePropertiesOnce",
                            [distinctId |-> distinctId, properties |-> properties]),
                       "$set_once", distinctId, properties)

incrementProfileProperties ==
    /\ Ready
    /\ \E distinctId \in DistinctIds, properties \in NumberObjects :
         engageRequest(Call("incrementProfileProperties",
                            [distinctId |-> distinctId, properties |-> properties]),
                       "$add", distinctId, properties)

appendToProfileList ==
    /\ Ready
    /\ \E distinctId \in DistinctIds, property \in PropertyNames, values \in ListValues :
         engageRequest(Call("appendToProfileList",
                            [distinctId |-> distinctId, property |-> property, values |-> values]),
                       "$append", distinctId,
                       << <<property, values>> >>)

removeFromProfileList ==
    /\ Ready
    /\ \E distinctId \in DistinctIds, property \in PropertyNames, values \in ListValues :
         engageRequest(Call("removeFromProfileList",
                            [distinctId |-> distinctId, property |-> property, values |-> values]),
                       "$remove", distinctId,
                       << <<property, values>> >>)

unionToProfileList ==
    /\ Ready
    /\ \E distinctId \in DistinctIds, properties \in {<< <<"tags", << <<"a">> >> >> >>} :
         engageRequest(Call("unionToProfileList",
                            [distinctId |-> distinctId, properties |-> properties]),
                       "$union", distinctId, properties)

unsetProfileProperties ==
    /\ Ready
    /\ \E distinctId \in DistinctIds, properties \in {<< <<"plan">> >>} :
         engageRequest(Call("unsetProfileProperties",
                            [distinctId |-> distinctId, properties |-> properties]),
                       "$unset", distinctId, properties)

deleteProfile ==
    /\ Ready
    /\ \E distinctId \in DistinctIds :
         LET token == Credentials.projectToken
             payload == << << <<"$token", token[1]>>, <<"$distinct_id", distinctId>>,
                              <<"$delete", <<>>>> >> >>
         IN  IF ~Truthy(token)
             THEN Throw(Call("deleteProfile", [distinctId |-> distinctId]),
                        TokenRequired("profile operations"))
             ELSE fetchStatus(Call("deleteProfile", [distinctId |-> distinctId]),
                              <<"/engage">>, payload)

\* ---------------------------------------------------------------------------
\* Ingestion API: group profiles
\* ---------------------------------------------------------------------------
GroupKeys == {<<"company">>}

GroupIds == {<<"acme">>}

groupRequest(op, operation, groupKey, groupId, data) ==
    LET token == Credentials.projectToken
        payload == << << <<"$token", token[1]>>, <<"$group_key", groupKey>>,
                         <<"$group_id", groupId>>, <<operation, data>> >> >>
    IN  IF ~Truthy(token)
        THEN Throw(op, TokenRequired("group operations"))
        ELSE fetchStatus(op, <<"/groups">>, payload)

setGroupProperties ==
    /\ Ready
    /\ \E groupKey \in GroupKeys, groupId \in GroupIds, properties \in PropertyObjects :
         groupRequest(Call("setGroupProperties",
                           [groupKey |-> groupKey, groupId |-> groupId, properties |-> properties]),
                      "$set", groupKey, groupId, properties)

setGroupPropertiesOnce ==
    /\ Ready
    /\ \E groupKey \in GroupKeys, groupId \in GroupIds, properties \in PropertyObjects :
         groupRequest(Call("setGroupPropertiesOnce",
                           [groupKey |-> groupKey, groupId |-> groupId, properties |-> properties]),
                      "$set_once", groupKey, groupId, properties)

unsetGroupProperties ==
    /\ Ready
    /\ \E groupKey \in GroupKeys, groupId \in GroupIds, properties \in {<< <<"plan">> >>} :
         groupRequest(Call("unsetGroupProperties",
                           [groupKey |-> groupKey, groupId |-> groupId, properties |-> properties]),
                      "$unset", groupKey, groupId, properties)

\* deleteGroup without its project token check
deleteGroupNoTokenCheck ==
    /\ Ready
    /\ \E groupKey \in GroupKeys, groupId \in GroupIds :
         fetchStatus(Call("deleteGroup", [groupKey |-> groupKey, groupId |-> groupId]),
                     <<"/groups">>,
                     << << <<"$token", Interpolate(Credentials.projectToken)>>,
                           <<"$group_key", groupKey>>, <<"$group_id", groupId>>,
                           <<"$delete", <<>>>> >> >>)

deleteGroup ==
    /\ Ready
    /\ \E groupKey \in GroupKeys, groupId \in GroupIds :
         LET token == Credentials.projectToken
             payload == << << <<"$token", token[1]>>, <<"$group_key", groupKey>>,
                              <<"$group_id", groupId>>, <<"$delete", <<>>>> >> >>
         IN  IF ~Truthy(token)
             THEN Throw(Call("deleteGroup", [groupKey |-> groupKey, groupId |-> groupId]),
                        TokenRequired("group operations"))
             ELSE fetchStatus(Call("deleteGroup", [groupKey |-> groupKey, groupId |-> groupId]),
                              <<"/groups">>, payload)

\* ---------------------------------------------------------------------------
\* Ingestion API: identity management
\* ---------------------------------------------------------------------------
AnonIds == {<<"anon-1">>}

createIdentity ==
    /\ Ready
    /\ \E distinctId \in DistinctIds, anonId \in AnonIds :
         LET token == Credentials.projectToken
             payload == << <<"event", <<"$identify">>>>,
                           <<"properties", << <<"$identified_id", distinctId>>,
                                              <<"$anon_id", anonId>>,
                                              <<"token", token[1]>> >> >> >>
         IN  IF ~Truthy(token)
             THEN Throw(Call("createIdentity", [distinctId |-> distinctId, anonId |-> anonId]),
                        TokenRequired("identity operations"))
             ELSE fetchStatus(Call("createIdentity",
                                   [distinctId |-> distinctId, anonId |-> anonId]),
                              <<"/track">>, <<payload>>)

\* createAlias leaving the project token out of the event's properties
createAliasWithoutToken ==
    /\ Ready
    /\ \E distinctId \in DistinctIds, alias \in {<<"alias-1">>} :
         LET token == Credentials.projectToken
             payload == << <<"event", <<"$create_alias">>>>,
                           <<"properties", << <<"distinct_id", distinctId>>,
                                              <<"alias", alias>> >> >> >>
         IN  IF ~Truthy(token)
             THEN Throw(Call("createAlias", [distinctId |-> distinctId, alias |-> alias]),
                        TokenRequired("alias operations"))
             ELSE fetchStatus(Call("createAlias", [distinctId |-> distinctId, alias |-> alias]),
                              <<"/track">>, <<payload>>)

createAlias ==
    /\ Ready
    /\ \E distinctId \in DistinctIds, alias \in {<<"alias-1">>} :
         LET token == Credentials.projectToken
             payload == << <<"event", <<"$create_alias">>>>,
                           <<"properties", << <<"distinct_id", distinctId>>,
                                              <<"alias", alias>>,
                                              <<"token", token[1]>> >> >> >>
         IN  IF ~Truthy(token)
             THEN Throw(Call("createAlias", [distinctId |-> distinctId, alias |-> alias]),
                        TokenRequired("alias operations"))
             ELSE fetchStatus(Call("createAlias", [distinctId |-> distinctId, alias |-> alias]),
                              <<"/track">>, <<payload>>)

mergeIdentities ==
    /\ Ready
    /\ \E distinctId1 \in DistinctIds, distinctId2 \in {<<"u2">>} :
         LET token == Credentials.projectToken
             payload == << <<"event", <<"$merge">>>>,
                           <<"properties", << <<"$distinct_ids", <<distinctId1, distinctId2>>>>,
                                              <<"token", token[1]>> >> >> >>
         IN  IF ~Truthy(token)
             THEN Throw(Call("mergeIdentities",
                             [distinctId1 |-> distinctId1, distinctId2 |-> distinctId2]),
                        TokenRequired("merge operations"))
             ELSE fetchStatus(Call("mergeIdentities",
                                   [distinctId1 |-> distinctId1, distinctId2 |-> distinctId2]),
                              <<"/track">>, <<payload>>)

\* ---------------------------------------------------------------------------
\* Management API: annotations
\* ---------------------------------------------------------------------------
AnnotationIds == {7}

AnnotationsPath(credentials) == <<"/projects/">> \o credentials.projectId \o <<"/annotations">>

listAnnotations ==
    /\ Ready
    /\ \E fromDate \in Opt({FromDate}), toDate \in Opt({ToDate}) :
         LET q0 == << <<"project_id", Credentials.projectId>> >>
             q1 == SetIf(q0, "from_date", Truthy(fromDate), fromDate[1])
             q2 == SetIf(q1, "to_date", Truthy(toDate), toDate[1])
         IN  request(Call("listAnnotations", [fromDate |-> fromDate, toDate |-> toDate]),
                     getAppApiUrl(Credentials),
                     AnnotationsPath(Credentials) \o <<"?">> \o URLSearchParams(q2),
                     NoOptions)

createAnnotation ==
    /\ Ready
    /\ \E date \in {FromDate}, description \in {<<"release">>} :
         request(Call("createAnnotation", [date |-> date, description |-> description]),
                 getAppApiUrl(Credentials),
                 AnnotationsPath(Credentials),
                 Post(JSONBody(<< <<"date", date>>, <<"description", description>> >>)))

getAnnotation ==
    /\ Ready
    /\ \E annotationId \in AnnotationIds :
         request(Call("getAnnotation", [annotationId |-> annotationId]),
                 getAppApiUrl(Credentials),
                 AnnotationsPath(Credentials) \o <<"/">> \o String(annotationId),
                 NoOptions)

updateAnnotation ==
    /\ Ready
    /\ \E annotationId \in AnnotationIds, date \in Opt({FromDate}),
          description \in Opt({<<"release">>}) :
         LET b0 == SetIf(<<>>, "date", IsSome(date), date[1])
             b1 == SetIf(b0, "description", IsSome(description), description[1])
         IN  request(Call("updateAnnotation",
                          [annotationId |-> annotationId, date |-> date, description |-> description]),
                     getAppApiUrl(Credentials),
                     AnnotationsPath(Credentials) \o <<"/">> \o String(annotationId),
                     [method |-> Some("PATCH"), headers |-> NoHeaders,
                      body |-> Some(JSONBody(b1))])

deleteAnnotation ==
    /\ Ready
    /\ \E annotationId \in AnnotationIds :
         request(Call("deleteAnnotation", [annotationId |-> annotationId]),
                 getAppApiUrl(Credentials),
                 AnnotationsPath(Credentials) \o <<"/">> \o String(annotationId),
                 Method("DELETE"))

\* ---------------------------------------------------------------------------
\* Management API: lookup tables
\* ---------------------------------------------------------------------------
TableNames == {<<"plans">>, <<"a", "/", "b">>}

\* rows of a lookup table: a value is None for null/undefined, else a string; the
\* last table has a key with a comma in it
LookupData ==
    { <<>>,
      << << <<"id", Some(<<"1">>)>>, <<"name", Some(<<"a", ",", "b">>)>> >> >>,
      << << <<"id", Some(<<"1">>)>>, <<"name", Some(<<"say ", "\"", "hi", "\"">>)>> >>,
         << <<"id", None>>, <<"extra", Some(<<"x">>)>> >>,
         << <<"id", Some(<<"l1", "\n", "l2">>)>>, <<"name", Some(<<"plain">>)>> >> >>,
      << << <<"city,state", Some(<<"x">>)>>, <<"id", None>> >>,
         << <<"id", Some(<<"7">>)>>, <<"city,state", Some(<<"x", ",">>)>> >> >> }

RECURSIVE Join(_, _)
Join(list, sep) ==
    IF list = <<>> THEN <<>>
    ELSE list[1] \o (IF Len(list) > 1 THEN <<sep>> ELSE <<>>) \o Join(Tail(list), sep)

Includes(str, t) == \E i \in 1..Len(str) : str[i] = t

\* str.replace(/"/g, '""')
RECURSIVE DoubleQuotes(_)
\* a replace that leaves the double quotes of the value single
DoubleQuotesKeptSingle(str) == str

DoubleQuotes(str) ==
    IF str = <<>> THEN <<>>
    ELSE (IF str[1] = "\"" THEN <<"\"", "\"">> ELSE <<str[1]>>) \o DoubleQuotes(Tail(str))

CsvValue(row, h) ==
    IF ~HasKey(row, h) \/ Get(row, h) = None THEN <<>>
    ELSE LET str == Get(row, h)[1]
         IN  IF Includes(str, ",") \/ Includes(str, "\"") \/ Includes(str, "\n")
             THEN <<"\"">> \o DoubleQuotes(str) \o <<"\"">>
             ELSE str

\* the text of an object key: its characters where one of them is a comma, else
\* the key as one token
KeyText(h) ==
    CASE h = "city,state" -> <<"city", ",", "state">>
      [] OTHER -> <<h>>

\* headers = Object.keys(data[0]); csvRows = [headers.join(','), ...one line per row]
CsvContent(data) ==
    LET headers == [i \in 1..Len(data[1]) |-> data[1][i][1]]
        line(row) == Join([i \in 1..Len(headers) |-> CsvValue(row, headers[i])], ",")
    IN  Join(<<Join([i \in 1..Len(headers) |-> KeyText(headers[i])], ",")>>
             \o [r \in 1..Len(data) |-> line(data[r])], "\n")

listLookupTables ==
    /\ Ready
    /\ request(Call("listLookupTables", NoArgs), getIngestionApiUrl(Credentials),
               <<"/lookup_tables?project_id=">> \o Credentials.projectId, NoOptions)

\* createOrReplaceLookupTable called with a name and rows drawn from the given sets
createOrReplaceLookupTableOf(tableNames, tables) ==
    /\ Ready
    /\ \E tableName \in tableNames, data \in tables :
         IF Len(data) = 0
         THEN Throw(Call("createOrReplaceLookupTable", [tableName |-> tableName, data |-> data]),
                    ApiError(<<"Lookup table data cannot be empty">>, None))
         ELSE fetch(Call("createOrReplaceLookupTable",
                         [tableName |-> tableName, data |-> data]),
                    "lookupTable",
                    <<getIngestionApiUrl(Credentials), "/lookup_tables/">> \o tableName
                    \o <<"?project_id=">> \o Credentials.projectId,
                    "PUT",
                    Spread(getAuthHeaders(Credentials), "Content-Type" :> <<"text/csv">>),
                    Some(<<"text", CsvContent(data)>>))

createOrReplaceLookupTable == createOrReplaceLookupTableOf(TableNames, LookupData)

\* ---------------------------------------------------------------------------
\* Management API: schemas
\* ---------------------------------------------------------------------------
EntityTypes == {<<"event">>, <<"profile">>}

SchemaNames == {<<"Signup">>, <<"a", "/", "b", "?", "c">>}

encodeURIComponentToken(t) ==
    CASE t = "/" -> "%2F"
      [] t = "?" -> "%3F"
      [] t = "#" -> "%23"
      [] t = "&" -> "%26"
      [] t = "=" -> "%3D"
      [] t = ":" -> "%3A"
      [] t = "," -> "%2C"
      [] t = " " -> "%20"
      [] t = "\"" -> "%22"
      [] t = "[" -> "%5B"
      [] t = "]" -> "%5D"
      [] OTHER -> t

encodeURIComponent(s) == [i \in 1..Len(s) |-> encodeURIComponentToken(s[i])]

SchemasPath(credentials) == <<"/projects/">> \o credentials.projectId \o <<"/schemas">>

listSchemas ==
    /\ Ready
    /\ \E entityType \in Opt(EntityTypes) :
         request(Call("listSchemas", [entityType |-> entityType]), getAppApiUrl(Credentials),
                 SchemasPath(Credentials)
                 \o (IF Truthy(entityType) THEN <<"/">> \o entityType[1] ELSE <<>>),
                 NoOptions)

getSchema ==
    /\ Ready
    /\ \E entityType \in EntityTypes, name \in SchemaNames :
         request(Call("getSchema", [entityType |-> entityType, name |-> name]),
                 getAppApiUrl(Credentials),
                 SchemasPath(Credentials) \o <<"/">> \o entityType \o <<"/">>
                 \o encodeURIComponent(name),
                 NoOptions)

createOrUpdateSchema ==
    /\ Ready
    /\ \E entityType \in EntityTypes, name \in SchemaNames,
          schemaJson \in {<< <<"description", <<"d">>>> >>} :
         request(Call("createOrUpdateSchema",
                      [entityType |-> entityType, name |-> name, schemaJson |-> schemaJson]),
                 getAppApiUrl(Credentials),
                 SchemasPath(Credentials) \o <<"/">> \o entityType \o <<"/">>
                 \o encodeURIComponent(name),
                 Post(JSONBody(<< <<"schema_json", schemaJson>> >>)))

deleteSchema ==
    /\ Ready
    /\ \E entityType \in EntityTypes, name \in SchemaNames :
         request(Call("deleteSchema", [entityType |-> entityType, name |-> name]),
                 getAppApiUrl(Credentials),
                 SchemasPath(Credentials) \o <<"/">> \o entityType \o <<"/">>
                 \o encodeURIComponent(name),
                 Method("DELETE"))

\* ---------------------------------------------------------------------------
\* GDPR API
\* ---------------------------------------------------------------------------
\* the second id holds a query string and a fragment mark
RequestIds == {<<"r1">>, <<"r2", "?", "token=evil", "#">>}

DistinctIdLists == {<< <<"u1">> >>}

createDataRetrieval ==
    /\ Ready
    /\ \E distinctIds \in DistinctIdLists, dataType \in Opt({<<"events">>}),
          completionEmail \in Opt({<<"dpo@example.com">>}) :
         LET b0 == << <<"distinct_ids", distinctIds>> >>
             b1 == SetIf(b0, "data_type", Truthy(dataType), dataType[1])
             b2 == SetIf(b1, "completion_email", Truthy(completionEmail), completionEmail[1])
         IN  request(Call("createDataRetrieval",
                          [distinctIds |-> distinctIds, dataType |-> dataType, completionEmail |-> completionEmail]),
                     getAppApiUrl(Credentials),
                     <<"/data-retrievals/v3.0?token=">> \o Interpolate(Credentials.projectToken),
                     Post(JSONBody(b2)))

getDataRetrievalStatus ==
    /\ Ready
    /\ \E requestId \in RequestIds :
         request(Call("getDataRetrievalStatus", [requestId |-> requestId]),
                 getAppApiUrl(Credentials),
                 <<"/data-retrievals/v3.0/">> \o requestId \o <<"?token=">>
                 \o Interpolate(Credentials.projectToken),
                 NoOptions)

createDataDeletion ==
    /\ Ready
    /\ \E distinctIds \in DistinctIdLists :
         request(Call("createDataDeletion", [distinctIds |-> distinctIds]),
                 getAppApiUrl(Credentials),
                 <<"/data-deletions/v3.0?token=">> \o Interpolate(Credentials.projectToken),
                 Post(JSONBody(<< <<"distinct_ids", distinctIds>> >>)))

getDataDeletionStatus ==
    /\ Ready
    /\ \E requestId \in RequestIds :
         request(Call("getDataDeletionStatus", [requestId |-> requestId]),
                 getAppApiUrl(Credentials),
                 <<"/data-deletions/v3.0/">> \o requestId \o <<"?token=">>
                 \o Interpolate(Credentials.projectToken),
                 NoOptions)

cancelDataDeletion ==
    /\ Ready
    /\ \E requestId \in RequestIds :
         request(Call("cancelDataDeletion", [requestId |-> requestId]),
                 getAppApiUrl(Credentials),
                 <<"/data-deletions/v3.0/">> \o requestId \o <<"?token=">>
                 \o Interpolate(Credentials.projectToken),
                 Method("DELETE"))

\* ---------------------------------------------------------------------------
\* Specification
\* ---------------------------------------------------------------------------
Next ==
    \/ Fetch
    \/ Return
    \/ Respond
    \/ NetworkFailure
    \/ testConnection
    \/ queryInsights
    \/ querySegmentation
    \/ querySegmentationNumeric
    \/ querySegmentationSum
    \/ querySegmentationAverage
    \/ exportEvents
    \/ getFunnel
    \/ listFunnels
    \/ getRetention
    \/ getFrequency
    \/ queryProfiles
    \/ getProfile
    \/ getProfileActivity
    \/ getTopEvents
    \/ getEventNames
    \/ getEventProperties
    \/ getPropertyValues
    \/ getTopPropertyValues
    \/ queryEvents
    \/ listCohorts
    \/ executeJQL
    \/ trackEvent
    \/ trackEvents
    \/ importEvents
    \/ setProfileProperties
    \/ setProfilePropertiesOnce
    \/ incrementProfileProperties
    \/ appendToProfileList
    \/ removeFromProfileList
    \/ unionToProfileList
    \/ unsetProfileProperties
    \/ deleteProfile
    \/ setGroupProperties
    \/ setGroupPropertiesOnce
    \/ unsetGroupProperties
    \/ deleteGroup
    \/ createIdentity
    \/ createAlias
    \/ mergeIdentities
    \/ listAnnotations
    \/ createAnnotation
    \/ getAnnotation
    \/ updateAnnotation
    \/ deleteAnnotation
    \/ listLookupTables
    \/ createOrReplaceLookupTable
    \/ listSchemas
    \/ getSchema
    \/ createOrUpdateSchema
    \/ deleteSchema
    \/ createDataRetrieval
    \/ getDataRetrievalStatus
    \/ createDataDeletion
    \/ getDataDeletionStatus
    \/ cancelDataDeletion

Spec == Init /\ [][Next]_vars

\* ---------------------------------------------------------------------------
\* Lookup table upload over a wide range of cell values
\* ---------------------------------------------------------------------------
TenantA ==
    [ username |-> Some(<<"s", "v", "c">>), secret |-> Some(<<"s", "h", "h">>),
      projectId |-> Some(<<"1", "2", "3">>), projectToken |-> Some(<<"t", "o", "k">>),
      euResident |-> None ]

FetchTenantA == FetchFrom({"/mcp"}, {"POST"}, {TenantA})

CsvAlphabet == {"x", ",", "\"", "\n"}

MaxCellLen == 2

\* the cell values of at most n characters: null, or a string over CsvAlphabet
CsvCells(n) ==
    {None} \cup {Some(s) : s \in UNION {[1..k -> CsvAlphabet] : k \in 0..n}}

CsvRows(cells) == {<< <<"id", a>>, <<"name", b>> >> : a \in cells, b \in cells}

\* one-row tables over all cells, two-row tables over the cells of at most one character
CsvTables ==
    {<<r>> : r \in CsvRows(CsvCells(MaxCellLen))}
    \cup {<<r1, r2>> : r1 \in CsvRows(CsvCells(1)), r2 \in CsvRows(CsvCells(1))}

uploadLookupTable == createOrReplaceLookupTableOf({<<"plans">>}, CsvTables)

UploadResponses ==
    { [status |-> 200, retryAfter |-> None, contentType |-> None, body |-> <<"ok">>],
      [status |-> 400, retryAfter |-> None, contentType |-> None, body |-> <<"bad csv">>] }

RespondUpload == RespondWith(UploadResponses)

NextCsv ==
    \/ FetchTenantA
    \/ uploadLookupTable
    \/ RespondUpload
    \/ Return

SpecCsv == Init /\ [][NextCsv]_vars

\* ---------------------------------------------------------------------------
\* Raw export over a wide range of response bodies
\* ---------------------------------------------------------------------------
NdjsonTokens == {EVENT_SIGNUP, EVENT_LOGIN, EVENT_PING, "\n"}

MaxBodyLen == 4

NdjsonBodies == UNION {[1..k -> NdjsonTokens] : k \in 0..MaxBodyLen}

ExportResponses ==
    [ status : {200}, retryAfter : {None}, contentType : {Some(<<"text/plain">>)},
      body : NdjsonBodies ]
    \cup
    [ status : {429, 500}, retryAfter : {None}, contentType : {Some(<<"text/plain">>)},
      body : {<<"slow down">>} ]

RespondExport == RespondWith(ExportResponses)

NextExport ==
    \/ FetchTenantA
    \/ exportEvents
    \/ RespondExport
    \/ Return

SpecExport == Init /\ [][NextExport]_vars

\* ---------------------------------------------------------------------------
\* The mixpanel_query_insights tool over well-formed and malformed inputs
\* ---------------------------------------------------------------------------
\* the JSON values of a tool input's fields: an absent field, a string, a number
\* (held as its numeral)
Missing == [type |-> "missing", value |-> <<>>]

Str(s) == [type |-> "string", value |-> s]

Num(numeral) == [type |-> "number", value |-> numeral]

\* z.string()
zString(v) == v.type = "string"

\* z.string().optional()
zStringOptional(v) == v.type = "missing" \/ zString(v)

\* z.enum(values).optional()
zEnumOptional(values, v) == v.type = "missing" \/ (v.type = "string" /\ v.value \in values)

Intervals == {<<"minute">>, <<"hour">>, <<"day">>, <<"week">>, <<"month">>}

\* the schema of mixpanel_query_insights (groupBy and where are left undefined)
InsightsSchema(input) ==
    /\ zString(input.fromDate)
    /\ zString(input.toDate)
    /\ zStringOptional(input.event)
    /\ zEnumOptional(Intervals, input.interval)

\* the value the handler receives for an optional field
Parsed(v) == IF v.type = "missing" THEN None ELSE Some(v.value)

\* the MCP server refuses an input that fails the tool's schema: the handler, and
\* so the client operation, is not invoked
Reject(op, input) ==
    /\ Ready
    /\ pc' = "done"
    /\ invocation' = Some([op |-> op, via |-> "rejected", args |-> input])
    /\ calls' = <<>>
    /\ response' = None
    /\ result' = None
    /\ envelope' = Some([kind |-> "invalid_params"])
    /\ UNCHANGED <<inbound, httpResponse, server, client, previous, peer>>

ISO_DATE == <<"2", "0", "2", "4", "-", "0", "1", "-", "0", "1">>

SLASH_DATE == <<"0", "1", "/", "3", "1", "/", "2", "0", "2", "4">>

InsightsInputs ==
    [ fromDate : {Missing, Str(ISO_DATE), Str(SLASH_DATE), Num(<<"20240101">>)},
      toDate : {Missing, Str(ISO_DATE), Str(SLASH_DATE)},
      event : {Missing, Str(<<"Signup">>), Str(<<>>), Num(<<"7">>)},
      interval : {Missing, Str(<<"day">>), Str(<<"fortnight">>)} ]

mixpanel_query_insights ==
    /\ Ready
    /\ \E input \in InsightsInputs :
         IF InsightsSchema(input)
         THEN queryInsightsWith([ fromDate |-> input.fromDate.value,
                                  toDate |-> input.toDate.value,
                                  event |-> Parsed(input.event),
                                  interval |-> Parsed(input.interval),
                                  where |-> None, groupBy |-> None ])
         ELSE Reject("queryInsights", input)

BriefResponses ==
    { [ status |-> 200, retryAfter |-> None,
        contentType |-> Some(<<"application/json", "; charset=utf-8">>),
        body |-> <<STATUS_0>> ],
      [ status |-> 500, retryAfter |-> None, contentType |-> Some(<<"text/plain">>),
        body |-> <<"oops">> ] }

RespondBrief == RespondWith(BriefResponses)

NextTools ==
    \/ FetchTenantA
    \/ mixpanel_query_insights
    \/ RespondBrief
    \/ NetworkFailure
    \/ Return

SpecTools == Init /\ [][NextTools]_vars

\* ---------------------------------------------------------------------------
\* Two tenants' requests in flight at once
\* ---------------------------------------------------------------------------
TenantB ==
    [ username |-> Some(<<"a">>), secret |-> Some(<<"k", "e", "y">>),
      projectId |-> Some(<<"4", "5", "6">>), projectToken |-> Some(<<"t", "k", "2">>),
      euResident |-> Some(<<"t", "r", "u", "e">>) ]

FetchTenants == FetchFrom({"/mcp"}, {"POST"}, {TenantA, TenantB})

\* the handler of this request is suspended at an await (or has not started, or is
\* over) and the runtime runs the handler of the other request: the two requests
\* trade places, each with its own server, client, invocation and calls
Switch ==
    /\ pc' = peer.pc
    /\ inbound' = peer.inbound
    /\ httpResponse' = peer.httpResponse
    /\ server' = peer.server
    /\ client' = peer.client
    /\ invocation' = peer.invocation
    /\ calls' = peer.calls
    /\ response' = peer.response
    /\ result' = peer.result
    /\ envelope' = peer.envelope
    /\ previous' = peer.previous
    /\ peer' = [ pc |-> pc, inbound |-> inbound, httpResponse |-> httpResponse,
                 server |-> server, client |-> client, invocation |-> invocation,
                 calls |-> calls, response |-> response, result |-> result,
                 envelope |-> envelope, previous |-> previous ]

NextConc ==
    \/ FetchTenants
    \/ Switch
    \/ listFunnels
    \/ deleteProfile
    \/ createDataDeletion
    \/ RespondBrief
    \/ NetworkFailure
    \/ Return

SpecConc == Init /\ [][NextConc]_vars

\* ---------------------------------------------------------------------------
\* Several tool calls handled by the server and client of one request
\* ---------------------------------------------------------------------------
\* the server built for this request receives its next tools/call: the handler
\* closes over the client built by createStatelessServer, and the finished call's
\* locals are left behind until the next operation replaces them
NextToolCall ==
    /\ pc = "done"
    /\ IsSome(client)
    /\ IsSome(invocation)
    /\ pc' = "serving"
    /\ previous' = Some(invocation[1].op)
    /\ UNCHANGED <<inbound, httpResponse, server, client, invocation, calls, response, result,
                   envelope, peer>>

NextSeq ==
    \/ FetchTenants
    \/ Switch
    \/ NextToolCall
    \/ listFunnels
    \/ trackEvents
    \/ createDataDeletion
    \/ RespondBrief
    \/ NetworkFailure
    \/ Return

SpecSeq == Init /\ [][NextSeq]_vars

\* ---------------------------------------------------------------------------
\* Properties
\* ---------------------------------------------------------------------------
IsMcpPost == IsSome(inbound) /\ inbound[1].path = "/mcp" /\ inbound[1].method = "POST"

InboundHeader(name) == inbound[1].headers[name]

MissingCredential ==
    \/ ~Truthy(InboundHeader("username"))
    \/ ~Truthy(InboundHeader("secret"))
    \/ ~Truthy(InboundHeader("projectId"))

Names(message, header) == \E i \in 1..Len(message) : message[i] = header

InvokedOp == invocation[1].op

IngestionClassOps ==
    { "trackEvent", "trackEvents", "importEvents",
      "setProfileProperties", "setProfilePropertiesOnce", "incrementProfileProperties",
      "appendToProfileList", "removeFromProfileList", "unionToProfileList",
      "unsetProfileProperties", "deleteProfile",
      "setGroupProperties", "setGroupPropertiesOnce", "unsetGroupProperties",
      "deleteGroup", "createIdentity", "createAlias", "mergeIdentities" }

GdprOps ==
    { "createDataRetrieval", "getDataRetrievalStatus", "createDataDeletion",
      "getDataDeletionStatus", "cancelDataDeletion" }

ErrorKinds == {"RateLimitError", "AuthenticationError", "ApiError"}

\* C1: a POST /mcp request lacking a non-empty username, secret or project id is
\* answered 401 by fetch itself: no server and no client is built for it and no
\* outbound call is issued.
C1_MissingCredentialsAnswered401 ==
    (IsMcpPost /\ MissingCredential) =>
        /\ pc = "done"
        /\ IsSome(httpResponse) /\ httpResponse[1].status = 401
        /\ server = None
        /\ client = None
        /\ invocation = None
        /\ calls = <<>>

C1_Witness ==
    /\ IsMcpPost
    /\ Truthy(InboundHeader("username")) /\ Truthy(InboundHeader("secret"))
    /\ ~Truthy(InboundHeader("projectId"))
    /\ IsSome(httpResponse) /\ httpResponse[1].status = 401

\* C2: the error of credential validation names every one of the username, secret
\* and project id headers that is missing, the project id also when the username
\* or the secret is missing with it.
C2_ErrorNamesEveryMissingField ==
    (IsMcpPost /\ IsSome(httpResponse) /\ httpResponse[1].status = 401) =>
        /\ ~Truthy(InboundHeader("username")) => Names(httpResponse[1].message, H_USERNAME)
        /\ ~Truthy(InboundHeader("secret")) => Names(httpResponse[1].message, H_SECRET)
        /\ ~Truthy(InboundHeader("projectId")) => Names(httpResponse[1].message, H_PROJECT_ID)

\* the header value is "true" in any mix of upper and lower case
IsTrueIgnoringCase(v) ==
    /\ Len(v) = 4
    /\ v[1] \in {"t", "T"} /\ v[2] \in {"r", "R"}
    /\ v[3] \in {"u", "U"} /\ v[4] \in {"e", "E"}

\* the API surface each operation belongs to
SurfaceOf(op) ==
    CASE op = "exportEvents" -> "export"
      [] op \in IngestionClassOps
              \cup {"listLookupTables", "createOrReplaceLookupTable"} -> "ingestion"
      [] op \in GdprOps
              \cup { "listAnnotations", "createAnnotation", "getAnnotation",
                     "updateAnnotation", "deleteAnnotation", "listSchemas",
                     "getSchema", "createOrUpdateSchema", "deleteSchema" } -> "app"
      [] OTHER -> "query"

StandardBase(surface) ==
    CASE surface = "query" -> MIXPANEL_API_URL
      [] surface = "export" -> DATA_API_URL
      [] surface = "ingestion" -> INGESTION_API_URL
      [] surface = "app" -> APP_API_URL

EuBase(surface) ==
    CASE surface = "query" -> EU_MIXPANEL_API_URL
      [] surface = "export" -> EU_DATA_API_URL
      [] surface = "ingestion" -> EU_INGESTION_API_URL
      [] surface = "app" -> EU_APP_API_URL

\* C3: euResident is true exactly when the X-Mixpanel-EU-Resident header is "true"
\* in any letter case, and every outbound URL starts with the EU base URL of the
\* operation's surface when euResident is true and with the standard one otherwise.
C3_EuResidencySelectsBaseUrl ==
    IsSome(client) =>
        /\ client[1].euResident <=>
              (IsSome(InboundHeader("euResident"))
               /\ IsTrueIgnoringCase(InboundHeader("euResident")[1]))
        /\ \A i \in 1..Len(calls) :
              calls[i].url[1] =
                  IF IsSome(InboundHeader("euResident"))
                     /\ IsTrueIgnoringCase(InboundHeader("euResident")[1])
                  THEN EuBase(SurfaceOf(InvokedOp))
                  ELSE StandardBase(SurfaceOf(InvokedOp))

C3_Witness ==
    /\ IsSome(client)
    /\ InboundHeader("euResident") = Some(<<"T","R","U","E">>)
    /\ calls /= <<>>
    /\ InvokedOp = "getSchema"
    /\ calls[1].url[1] = EU_APP_API_URL

\* C4: an ingestion-class operation on a client without a project token throws an
\* error that names the X-Mixpanel-Project-Token header and issues no outbound call.
C4_NoTokenNoCall ==
    (IsSome(invocation) /\ InvokedOp \in IngestionClassOps
     /\ ~IsSome(client[1].projectToken)) =>
        /\ pc = "done"
        /\ calls = <<>>
        /\ response = None
        /\ IsSome(result) /\ result[1].kind = "ApiError"
        /\ Names(result[1].message, H_PROJECT_TOKEN)

C4_Witness ==
    /\ IsSome(invocation) /\ InvokedOp = "deleteGroup"
    /\ ~IsSome(client[1].projectToken)
    /\ IsSome(result) /\ result[1].kind = "ApiError"
    /\ calls = <<>>

\* C5: a GDPR operation on a client without a project token fails with an error
\* and issues no outbound call.
C5_GdprNoTokenNoCall ==
    (IsSome(invocation) /\ InvokedOp \in GdprOps /\ ~IsSome(client[1].projectToken)) =>
        /\ pc = "done"
        /\ calls = <<>>
        /\ IsSome(result) /\ result[1].kind \in ErrorKinds

IsNumeric(v) == Len(v) > 0 /\ \A i \in 1..Len(v) : IsDigit(v[i])

ExpectedRetryAfter(header) ==
    IF IsSome(header) /\ IsNumeric(header[1]) THEN DigitPrefix(header[1], 0) ELSE 60

\* an operation other than testConnection, whose own result is a report of the
\* outcome of its request, has received a response
Received == pc = "done" /\ IsSome(response) /\ InvokedOp /= "testConnection"

\* C6: an operation that receives a 429 response throws a rate-limit error whose
\* retry-after is the Retry-After header when that is present and numeric, else 60.
C6_RateLimitCarriesRetryAfter ==
    (Received /\ response[1].status = 429) =>
        /\ result[1].kind = "RateLimitError"
        /\ result[1].retryAfter = ExpectedRetryAfter(response[1].retryAfter)

\* C7: an operation that receives a non-2xx response throws a structured error
\* (rate limit, authentication or API error); it does not return a result.
C7_Non2xxIsAnError ==
    (Received /\ ~Ok(response[1])) =>
        result[1].kind \in ErrorKinds

\* C8: an operation that receives a 401 or a 403 response throws an
\* authentication error, on every surface.
C8_401And403AreAuthenticationErrors ==
    (Received /\ response[1].status \in {401, 403}) =>
        result[1].kind = "AuthenticationError"

\* base64 decoding, as a standard decoder does it
B64Index(c) == IndexIn(c, B64Alphabet) - 1

RECURSIVE B64Decode(_)
B64Decode(s) ==
    IF s = <<>> THEN <<>>
    ELSE LET a == B64Index(s[1])
             b == B64Index(s[2])
             byte1 == a * 4 + (b \div 16)
         IN  IF s[3] = "=" THEN <<byte1>>
             ELSE LET c == B64Index(s[3])
                      byte2 == (b % 16) * 16 + (c \div 4)
                  IN  IF s[4] = "=" THEN <<byte1, byte2>>
                      ELSE <<byte1, byte2, (c % 4) * 64 + B64Index(s[4])>>
                           \o B64Decode(SubSeq(s, 5, Len(s)))

Chars == {":", " ", "-"} \cup {B64Alphabet[i] : i \in 1..62}

CharOfCode(n) == CHOOSE c \in Chars : CharCode(c) = n

atob(s) == LET bytes == B64Decode(s) IN [i \in 1..Len(bytes) |-> CharOfCode(bytes[i])]

QueryAndAppBases == {MIXPANEL_API_URL, EU_MIXPANEL_API_URL, APP_API_URL, EU_APP_API_URL}

\* C9: every call to a query or app base URL carries an Authorization header that
\* is "Basic " followed by text that base64-decodes to username ":" secret of the
\* client's credentials.
C9_QueryAndAppCallsCarryBasicAuth ==
    \A i \in 1..Len(calls) :
        calls[i].url[1] \in QueryAndAppBases =>
            /\ "Authorization" \in DOMAIN calls[i].headers
            /\ LET auth == calls[i].headers["Authorization"]
               IN  /\ Len(auth) > 1
                   /\ auth[1] = "Basic "
                   /\ atob(Tail(auth)) = client[1].username \o <<":">> \o client[1].secret

C9_Witness ==
    /\ calls /= <<>>
    /\ InvokedOp = "createDataDeletion"
    /\ calls[1].url[1] = APP_API_URL
    /\ client[1].username = <<"s","v","c">> /\ client[1].secret = <<"s","h","h">>
    /\ calls[1].headers["Authorization"]
         = <<"Basic ", "c", "3", "Z", "j", "O", "n", "N", "o", "a", "A", "=", "=">>

\* str has sub as a contiguous run of tokens
Contains(str, sub) ==
    \E k \in 0..(Len(str) - Len(sub)) : SubSeq(str, k + 1, k + Len(sub)) = sub

\* the strings the client itself puts into one element of an ingestion body
EnvelopeKeys == {"$token", "$distinct_id", "$group_key", "$group_id"}

PropertyKeys == {"distinct_id", "token", "$identified_id", "$anon_id", "alias"}

StringsOf(obj, keys) == {obj[i][2] : i \in {j \in 1..Len(obj) : obj[j][1] \in keys}}

ElementStrings(element) ==
    IF HasKey(element, "properties")
    THEN {Get(element, "event")} \cup StringsOf(Get(element, "properties"), PropertyKeys)
    ELSE StringsOf(element, EnvelopeKeys)

BodyStrings(body) == UNION {ElementStrings(body[2][i]) : i \in 1..Len(body[2])}

FreeOf(str, credentials) ==
    /\ ~Contains(str, credentials.username)
    /\ ~Contains(str, credentials.secret)
    /\ ~Contains(str, btoa(credentials.username \o <<":">> \o credentials.secret))

\* C10: a call of a tracking, import, profile, group or identity operation has no
\* Authorization header, and neither its URL, its headers nor the fields the
\* client writes into its body hold the service-account username or secret.
C10_IngestionCallsCarryNoServiceAccount ==
    (IsSome(invocation) /\ InvokedOp \in IngestionClassOps) =>
        \A i \in 1..Len(calls) :
            /\ "Authorization" \notin DOMAIN calls[i].headers
            /\ \A h \in DOMAIN calls[i].headers : FreeOf(calls[i].headers[h], client[1])
            /\ FreeOf(calls[i].url, client[1])
            /\ IsSome(calls[i].body)
            /\ \A str \in BodyStrings(calls[i].body[1]) : FreeOf(str, client[1])

C10_Witness ==
    /\ IsSome(invocation) /\ InvokedOp = "importEvents"
    /\ calls /= <<>>
    /\ DOMAIN calls[1].headers = {"Content-Type", "Accept"}
    /\ client[1].projectToken = Some(<<"t","o","k">>)

\* what a server reads back from one token of a form-encoded value
FormDecodeToken(t) ==
    CASE t = "%5B" -> "["
      [] t = "%5D" -> "]"
      [] t = "%22" -> "\""
      [] t = "%2C" -> ","
      [] t = "%2F" -> "/"
      [] t = "%3F" -> "?"
      [] t = "%26" -> "&"
      [] t = "%3D" -> "="
      [] t = "%23" -> "#"
      [] t = "%3A" -> ":"
      [] t = "+" -> " "
      [] OTHER -> t

\* the name=value pairs a server reads from a query string
QueryPairs(query) ==
    LET parts == split(query, "&")
    IN  [i \in 1..Len(parts) |->
            <<parts[i][1],
              [j \in 1..(Len(parts[i]) - 2) |-> FormDecodeToken(parts[i][j + 2])]>>]

Range(seq) == {seq[i] : i \in 1..Len(seq)}

InvokedArgs == invocation[1].args

\* the query parameters queryInsights is to send for the arguments it was given
InsightsParameters ==
    { <<"project_id", client[1].projectId>>, <<"from_date", InvokedArgs.fromDate>>,
      <<"to_date", InvokedArgs.toDate>> }
    \cup (IF IsSome(InvokedArgs.event)
          THEN {<<"event", <<"[", "\"">> \o InvokedArgs.event[1] \o <<"\"", "]">>>>}
          ELSE {})
    \cup (IF IsSome(InvokedArgs.interval) THEN {<<"interval", InvokedArgs.interval[1]>>} ELSE {})
    \cup (IF IsSome(InvokedArgs.where) THEN {<<"where", InvokedArgs.where[1]>>} ELSE {})
    \cup (IF IsSome(InvokedArgs.groupBy)
          THEN {<<"on", StringifyList(InvokedArgs.groupBy[1])>>}
          ELSE {})

\* C11: queryInsights on a client that is not EU resident issues a GET to the
\* standard query base URL at /insights whose query string reads back as exactly
\* project_id, from_date, to_date, event = the JSON array holding the one event
\* name, and one parameter per optional argument that was supplied and none for
\* one that was not; the call carries Basic auth of base64(username:secret).
C11_QueryInsightsRequest ==
    (IsSome(invocation) /\ InvokedOp = "queryInsights" /\ ~client[1].euResident) =>
        /\ Len(calls) = 1
        /\ calls[1].method = "GET"
        /\ calls[1].body = None
        /\ calls[1].url[1] = MIXPANEL_API_URL
        /\ calls[1].url[2] = "/insights?"
        /\ LET pairs == QueryPairs(SubSeq(calls[1].url, 3, Len(calls[1].url)))
           IN  /\ Range(pairs) = InsightsParameters
               /\ Len(pairs) = Cardinality(InsightsParameters)
        /\ calls[1].headers["Authorization"][1] = "Basic "
        /\ atob(Tail(calls[1].headers["Authorization"]))
             = client[1].username \o <<":">> \o client[1].secret

C11_Witness ==
    /\ IsSome(invocation) /\ InvokedOp = "queryInsights" /\ ~client[1].euResident
    /\ InvokedArgs = [ fromDate |-> <<"2024-01-01">>, toDate |-> <<"2024-01-31">>,
                       event |-> Some(<<"Signup">>), interval |-> None, where |-> None,
                       groupBy |-> None ]
    /\ client[1].username = <<"s","v","c">>
    /\ calls[1].url = <<MIXPANEL_API_URL, "/insights?", "project_id", "=", "1", "2", "3",
                        "&", "from_date", "=", "2024-01-01", "&", "to_date", "=",
                        "2024-01-31", "&", "event", "=", "%5B", "%22", "Signup", "%22",
                        "%5D">>
    /\ calls[1].headers["Authorization"]
         = <<"Basic ", "c", "3", "Z", "j", "O", "n", "N", "o", "a", "A", "=", "=">>

\* the value of a JSON request body
JsonOf(body) == body[1][2]

\* C12: setProfileProperties(distinctId, properties) on a client with a project
\* token issues exactly one call, whose body is the one-element array holding the
\* object with $token = the token, $distinct_id = distinctId, $set = properties and
\* no other field.
C12_SetProfilePropertiesBody ==
    (IsSome(invocation) /\ InvokedOp = "setProfileProperties"
     /\ IsSome(client[1].projectToken)) =>
        /\ Len(calls) = 1
        /\ IsSome(calls[1].body) /\ calls[1].body[1][1] = "json"
        /\ Len(JsonOf(calls[1].body)) = 1
        /\ Len(JsonOf(calls[1].body)[1]) = 3
        /\ Range(JsonOf(calls[1].body)[1])
             = { <<"$token", client[1].projectToken[1]>>,
                 <<"$distinct_id", InvokedArgs.distinctId>>,
                 <<"$set", InvokedArgs.properties>> }

C12_Witness ==
    /\ IsSome(invocation) /\ InvokedOp = "setProfileProperties"
    /\ calls /= <<>>
    /\ calls[1].body
         = Some(<<"json", << << <<"$token", <<"t", "o", "k">>>>, <<"$distinct_id", <<"u1">>>>,
                                <<"$set", << <<"plan", <<"pro">>>> >>>> >> >> >>)

ProfileMutations ==
    {"setProfileProperties", "setProfilePropertiesOnce", "incrementProfileProperties",
     "appendToProfileList", "removeFromProfileList", "unionToProfileList",
     "unsetProfileProperties", "deleteProfile"}

GroupMutations ==
    {"setGroupProperties", "setGroupPropertiesOnce", "unsetGroupProperties", "deleteGroup"}

OperationKeys ==
    {"$set", "$set_once", "$add", "$append", "$remove", "$union", "$unset", "$delete"}

\* the operation key the specification fixes for each mutation
OperationKeyOf(op) ==
    CASE op \in {"setProfileProperties", "setGroupProperties"} -> "$set"
      [] op \in {"setProfilePropertiesOnce", "setGroupPropertiesOnce"} -> "$set_once"
      [] op = "incrementProfileProperties" -> "$add"
      [] op = "appendToProfileList" -> "$append"
      [] op = "removeFromProfileList" -> "$remove"
      [] op = "unionToProfileList" -> "$union"
      [] op \in {"unsetProfileProperties", "unsetGroupProperties"} -> "$unset"
      [] op \in {"deleteProfile", "deleteGroup"} -> "$delete"

KeysOf(obj) == {obj[i][1] : i \in 1..Len(obj)}

\* C13: the body of every profile mutation is one envelope whose keys are exactly
\* $token, $distinct_id and the operation key of that mutation; the body of every
\* group mutation is one envelope whose keys are exactly $token, $group_key,
\* $group_id and the operation key of that mutation; no envelope has two operation
\* keys or a key outside these.
C13_MutationEnvelopeKeys ==
    (IsSome(invocation) /\ InvokedOp \in ProfileMutations \cup GroupMutations
     /\ calls /= <<>>) =>
        LET envelopes == JsonOf(calls[1].body)
            identity == IF InvokedOp \in ProfileMutations
                        THEN {"$token", "$distinct_id"}
                        ELSE {"$token", "$group_key", "$group_id"}
        IN  /\ Len(envelopes) = 1
            /\ KeysOf(envelopes[1]) = identity \cup {OperationKeyOf(InvokedOp)}
            /\ Len(envelopes[1]) = Cardinality(identity) + 1
            /\ Cardinality(KeysOf(envelopes[1]) \cap OperationKeys) = 1

C13_Witness ==
    /\ IsSome(invocation) /\ InvokedOp = "unsetGroupProperties" /\ calls /= <<>>
    /\ calls[1].body
         = Some(<<"json", << << <<"$token", <<"t", "o", "k">>>>, <<"$group_key", <<"company">>>>,
                                <<"$group_id", <<"acme">>>>,
                                <<"$unset", << <<"plan">> >>>> >> >> >>)

C13_WitnessProfile ==
    /\ IsSome(invocation) /\ InvokedOp = "incrementProfileProperties" /\ calls /= <<>>
    /\ KeysOf(JsonOf(calls[1].body)[1]) = {"$token", "$distinct_id", "$add"}

IdentityOps == {"createIdentity", "createAlias", "mergeIdentities"}

\* the pseudo-event the specification names for each identity operation
PseudoEventOf(op) ==
    CASE op = "createIdentity" -> <<"$identify">>
      [] op = "createAlias" -> <<"$create_alias">>
      [] op = "mergeIdentities" -> <<"$merge">>

\* the two identifiers an identity operation is asked to link
LinkedIds ==
    CASE InvokedOp = "createIdentity" -> {InvokedArgs.distinctId, InvokedArgs.anonId}
      [] InvokedOp = "createAlias" -> {InvokedArgs.distinctId, InvokedArgs.alias}
      [] InvokedOp = "mergeIdentities" -> {InvokedArgs.distinctId1, InvokedArgs.distinctId2}

\* the properties hold id as the value of a field or as a member of $distinct_ids
Carries(properties, id) ==
    \E i \in 1..Len(properties) :
        IF properties[i][1] = "$distinct_ids"
        THEN id \in Range(properties[i][2])
        ELSE properties[i][2] = id

\* C14: createIdentity, createAlias and mergeIdentities on a client with a
\* project token each issue exactly one POST to <ingestion base>/track whose body
\* is one event named $identify, $create_alias, $merge respectively, and whose
\* properties carry both linked identifiers and token = the project token.
C14_IdentityPseudoEvents ==
    (IsSome(invocation) /\ InvokedOp \in IdentityOps /\ IsSome(client[1].projectToken)) =>
        /\ Len(calls) = 1
        /\ calls[1].method = "POST"
        /\ calls[1].url = <<IF client[1].euResident THEN EU_INGESTION_API_URL
                            ELSE INGESTION_API_URL, "/track">>
        /\ LET events == JsonOf(calls[1].body)
           IN  /\ Len(events) = 1
               /\ Get(events[1], "event") = PseudoEventOf(InvokedOp)
               /\ \A id \in LinkedIds : Carries(Get(events[1], "properties"), id)
               /\ \E i \in 1..Len(Get(events[1], "properties")) :
                      Get(events[1], "properties")[i] = <<"token", client[1].projectToken[1]>>

C14_Witness ==
    /\ IsSome(invocation) /\ InvokedOp = "mergeIdentities" /\ calls /= <<>>
    /\ calls[1].body
         = Some(<<"json", << << <<"event", <<"$merge">>>>,
                                <<"properties",
                                  << <<"$distinct_ids", << <<"u1">>, <<"u2">> >>>>,
                                     <<"token", <<"t", "o", "k">>>> >>>> >> >> >>)

\* a CSV reader after RFC 4180 with records separated by the line feed: a field
\* that opens with a double quote runs to its closing quote, "" inside it reads
\* as one quote; s is read from position i on
RECURSIVE CsvRead(_, _, _, _, _, _)
CsvRead(s, i, quoted, field, row, rows) ==
    IF i > Len(s) THEN Append(rows, Append(row, field))
    ELSE IF quoted THEN
        IF s[i] = "\"" THEN
            IF i < Len(s) /\ s[i + 1] = "\""
            THEN CsvRead(s, i + 2, TRUE, Append(field, "\""), row, rows)
            ELSE CsvRead(s, i + 1, FALSE, field, row, rows)
        ELSE CsvRead(s, i + 1, TRUE, Append(field, s[i]), row, rows)
    ELSE IF s[i] = "\"" /\ field = <<>> THEN CsvRead(s, i + 1, TRUE, field, row, rows)
    ELSE IF s[i] = "," THEN CsvRead(s, i + 1, FALSE, <<>>, Append(row, field), rows)
    ELSE IF s[i] = "\n" THEN
        CsvRead(s, i + 1, FALSE, <<>>, <<>>, Append(rows, Append(row, field)))
    ELSE CsvRead(s, i + 1, FALSE, Append(field, s[i]), row, rows)

ParseCsv(text) == CsvRead(text, 1, FALSE, <<>>, <<>>, <<>>)

NeedsQuoting(str) == \E i \in 1..Len(str) : str[i] \in {",", "\"", "\n"}

UploadedCsv == calls[1].body[1][2]

\* C15: in the CSV built from the rows of a lookup table, every value that
\* contains a comma, a double quote or a newline reads back unchanged, in the
\* record of its row and the field of its column, when the text is parsed as CSV.
C15_CsvValuesRoundTrip ==
    (IsSome(invocation) /\ InvokedOp = "createOrReplaceLookupTable" /\ calls /= <<>>) =>
        LET data == InvokedArgs.data
            parsed == ParseCsv(UploadedCsv)
        IN  \A r \in 1..Len(data) : \A c \in 1..Len(data[1]) :
                LET value == data[r][c][2]
                IN  (IsSome(value) /\ NeedsQuoting(value[1])) =>
                        /\ Len(parsed) > r
                        /\ Len(parsed[r + 1]) >= c
                        /\ parsed[r + 1][c] = value[1]

C15_Witness ==
    /\ IsSome(invocation) /\ InvokedOp = "createOrReplaceLookupTable" /\ calls /= <<>>
    /\ InvokedArgs.data
         = << << <<"id", Some(<<"x">>)>>, <<"name", Some(<<"\"">>)>> >>,
              << <<"id", Some(<<"\n">>)>>, <<"name", Some(<<",">>)>> >> >>
    /\ UploadedCsv = <<"id", ",", "name", "\n", "x", ",", "\"", "\"", "\"", "\"", "\n",
                       "\"", "\n", "\"", ",", "\"", ",", "\"">>
    /\ ParseCsv(UploadedCsv)
         = << <<<<"id">>, <<"name">>>>, <<<<"x">>, <<"\"">>>>, <<<<"\n">>, <<",">>>> >>

\* an NDJSON body of events: every line is empty or holds one event object
IsEventNdjson(body) ==
    /\ \A i \in 1..Len(body) : body[i] \in {EVENT_SIGNUP, EVENT_LOGIN, EVENT_PING, "\n"}
    /\ \A i \in 1..(Len(body) - 1) : body[i] = "\n" \/ body[i + 1] = "\n"

\* the event record the specification describes for each line
EventOfLine(line) ==
    CASE line = EVENT_SIGNUP ->
           [ event |-> Some(<<"Signup">>),
             properties |-> << <<"time", 1700000000>>, <<"distinct_id", <<"u1">>>>,
                               <<"plan", <<"pro">>>> >>,
             time |-> Some(1700000000), distinctId |-> Some(<<"u1">>) ]
      [] line = EVENT_LOGIN ->
           [ event |-> Some(<<"Login">>),
             properties |-> << <<"distinct_id", <<"u2">>>>, <<"time", 1700000100>> >>,
             time |-> Some(1700000100), distinctId |-> Some(<<"u2">>) ]
      [] line = EVENT_PING ->
           [ event |-> Some(<<"Ping">>), properties |-> <<>>,
             time |-> None, distinctId |-> None ]

\* C16: on a 2xx response whose body is NDJSON, exportEvents returns one event
\* record per non-empty line, in the order of the lines, each with event and
\* properties of its line and time and distinctId from that line's properties; an
\* empty body yields the empty list.
C16_ExportOneRecordPerLine ==
    (pc = "done" /\ IsSome(invocation) /\ InvokedOp = "exportEvents" /\ IsSome(response)
     /\ Ok(response[1]) /\ IsEventNdjson(response[1].body)) =>
        LET lines == SelectSeq(response[1].body, LAMBDA t : t /= "\n")
        IN  /\ IsSome(result) /\ result[1].kind = "returned"
            /\ result[1].value[1] = "events"
            /\ result[1].value[2] = [i \in 1..Len(lines) |-> EventOfLine(lines[i])]

C16_Witness ==
    /\ pc = "done" /\ IsSome(invocation) /\ InvokedOp = "exportEvents" /\ IsSome(response)
    /\ response[1].status = 200
    /\ response[1].body = <<EVENT_LOGIN, "\n", "\n", EVENT_SIGNUP>>
    /\ Len(result[1].value[2]) = 2
    /\ result[1].value[2][1].distinctId = Some(<<"u2">>)
    /\ result[1].value[2][2].time = Some(1700000000)

C16_WitnessEmpty ==
    /\ pc = "done" /\ IsSome(invocation) /\ InvokedOp = "exportEvents" /\ IsSome(response)
    /\ response[1].status = 200 /\ response[1].body = <<>>
    /\ result[1] = Returned(<<"events", <<>>>>)

BatchOps == {"trackEvents", "importEvents"}

\* C17: an invocation issues at most one outbound call, a batch operation sends
\* its whole batch in that one call, and once a response has been received, be it
\* a success, a 429 or a failure, the invocation is over with that single call:
\* none is in flight and none was added.
C17_AtMostOneOutboundCall ==
    /\ Len(calls) <= 1
    /\ (IsSome(invocation) /\ InvokedOp \in BatchOps /\ calls /= <<>>) =>
           Len(JsonOf(calls[1].body)) = Len(InvokedArgs.events)
    /\ IsSome(response) => (pc = "done" /\ Len(calls) = 1)

C17_Witness ==
    /\ pc = "done" /\ IsSome(invocation) /\ InvokedOp = "importEvents"
    /\ Len(InvokedArgs.events) = 2
    /\ IsSome(response) /\ response[1].status = 429
    /\ Len(calls) = 1 /\ Len(JsonOf(calls[1].body)) = 2
    /\ result[1].kind = "RateLimitError"

\* C18: when a tool invocation is over its handler has returned an envelope: a
\* success envelope when the client operation returned, and, when the operation
\* threw (missing token, rate limit, authentication, API error, network failure,
\* response parsing failure), an error envelope { success: false, error } whose
\* error is the message of what was thrown; no exception leaves the handler.
C18_HandlerReturnsEnvelope ==
    (IsSome(invocation) /\ pc = "done") =>
        /\ IsSome(result)
        /\ IsSome(envelope)
        /\ envelope[1].kind = "envelope"
        /\ IF result[1].kind = "returned"
           THEN ~envelope[1].isError
           ELSE /\ envelope[1].isError
                /\ Get(envelope[1].text, "success") = FALSE
                /\ Get(envelope[1].text, "error") = result[1].message

\* a network failure comes back as an error envelope
C18_Witness ==
    /\ pc = "done" /\ IsSome(invocation) /\ InvokedOp = "queryInsights"
    /\ calls /= <<>> /\ response = None
    /\ result[1].kind = "TypeError"
    /\ envelope = Some([ kind |-> "envelope", isError |-> TRUE,
                         text |-> << <<"success", FALSE>>,
                                     <<"error", <<"fetch failed">>>> >> ])

\* a response that is no JSON comes back as an error envelope
C18_WitnessParsing ==
    /\ pc = "done" /\ IsSome(invocation) /\ InvokedOp = "importEvents"
    /\ IsSome(response) /\ response[1].status = 200 /\ response[1].body = HTML_BODY
    /\ result[1].kind = "SyntaxError"
    /\ envelope[1].isError

\* a missing project token comes back as an error envelope
C18_WitnessMissingToken ==
    /\ pc = "done" /\ IsSome(invocation) /\ InvokedOp = "trackEvent" /\ calls = <<>>
    /\ result[1].kind = "ApiError"
    /\ envelope[1].isError /\ Names(Get(envelope[1].text, "error"), H_PROJECT_TOKEN)

\* a string of the form YYYY-MM-DD
IsIsoDate(s) ==
    /\ Len(s) = 10
    /\ s[5] = "-" /\ s[8] = "-"
    /\ \A i \in {1, 2, 3, 4, 6, 7, 9, 10} : IsDigit(s[i])

\* C19: queryInsights is invoked by its tool only with a well-formed input: both
\* dates are YYYY-MM-DD strings, an event name that is given is not empty and an
\* interval that is given is one of the enumerated values; every other input is
\* refused by the schema, with no outbound call.
C19_MalformedInputRejected ==
    (IsSome(invocation) /\ InvokedOp = "queryInsights") =>
        IF invocation[1].via = "rejected"
        THEN calls = <<>> /\ result = None
        ELSE /\ IsIsoDate(InvokedArgs.fromDate)
             /\ IsIsoDate(InvokedArgs.toDate)
             /\ IsSome(InvokedArgs.event) => InvokedArgs.event[1] /= <<>>
             /\ IsSome(InvokedArgs.interval) => InvokedArgs.interval[1] \in Intervals

\* what the schema does refuse: a missing or non-string date, a non-string event
\* name, an interval outside the enumeration
C19_SchemaRefusesWrongTypes ==
    (IsSome(invocation) /\ InvokedOp = "queryInsights" /\ invocation[1].via = "rejected") =>
        \/ InvokedArgs.fromDate.type /= "string"
        \/ InvokedArgs.toDate.type /= "string"
        \/ InvokedArgs.event.type = "number"
        \/ InvokedArgs.interval = Str(<<"fortnight">>)

C19_WitnessRefused ==
    /\ IsSome(invocation) /\ invocation[1].via = "rejected"
    /\ InvokedArgs.interval = Str(<<"fortnight">>)
    /\ InvokedArgs.fromDate = Str(ISO_DATE) /\ InvokedArgs.toDate = Str(ISO_DATE)
    /\ calls = <<>> /\ envelope = Some([kind |-> "invalid_params"])

Tenants == {TenantA, TenantB}

\* the calls cs issued for the request inb by the invocation inv carry the base URL
\* residency, the Basic-auth pair, the project id and the project token of inb's
\* own headers, and nothing of the other tenant's
CarryOwnCredentials(inb, inv, cs) ==
    \A i \in 1..Len(cs) :
        LET own == inb[1].headers
            op == inv[1].op
            eu == IsSome(own.euResident) /\ IsTrueIgnoringCase(own.euResident[1])
        IN  /\ cs[i].url[1] = IF eu THEN EuBase(SurfaceOf(op)) ELSE StandardBase(SurfaceOf(op))
            /\ "Authorization" \in DOMAIN cs[i].headers =>
                   atob(Tail(cs[i].headers["Authorization"]))
                     = own.username[1] \o <<":">> \o own.secret[1]
            /\ op = "listFunnels" =>
                   Tail(cs[i].url) = <<"/funnels/list?", "project_id", "=">> \o own.projectId[1]
            /\ op = "createDataDeletion" =>
                   Tail(cs[i].url) = <<"/data-deletions/v3.0?token=">> \o own.projectToken[1]
            /\ op = "deleteProfile" =>
                   Get(JsonOf(cs[i].body)[1], "$token") = own.projectToken[1]
            /\ \A other \in Tenants \ {own} :
                   /\ ~Contains(cs[i].url, other.projectId[1])
                   /\ ~Contains(cs[i].url, other.projectToken[1])
                   /\ \A h \in DOMAIN cs[i].headers :
                          ~Contains(cs[i].headers[h],
                                    btoa(other.username[1] \o <<":">> \o other.secret[1]))

\* C20: with two tenants' requests in flight and their steps interleaved in any
\* order, every outbound call of either request carries the credentials (Basic
\* auth pair, project id, project token, residency base URL) of the inbound
\* request that caused it and none of the other request's.
C20_CallsCarryOwnCredentials ==
    /\ CarryOwnCredentials(inbound, invocation, calls)
    /\ CarryOwnCredentials(peer.inbound, peer.invocation, peer.calls)

\* both tenants have a call in flight at once, each to its own base URL
C20_Witness ==
    /\ pc = "awaiting" /\ peer.pc = "awaiting"
    /\ inbound[1].headers = TenantB /\ peer.inbound[1].headers = TenantA
    /\ InvokedOp = "listFunnels" /\ peer.invocation[1].op = "listFunnels"
    /\ calls[1].url = <<EU_MIXPANEL_API_URL, "/funnels/list?", "project_id", "=",
                        "4", "5", "6">>
    /\ peer.calls[1].url = <<MIXPANEL_API_URL, "/funnels/list?", "project_id", "=",
                             "1", "2", "3">>
    /\ atob(Tail(calls[1].headers["Authorization"])) = <<"a", ":", "k", "e", "y">>

\* ---------------------------------------------------------------------------
\* C21
\* ---------------------------------------------------------------------------
\* the operations that answer { status: response.ok ? 1 : 0 }
StatusOps == {"trackEvent", "trackEvents"} \cup ProfileMutations \cup GroupMutations
             \cup IdentityOps

\* C21: for trackEvent, trackEvents, every profile and group mutation and every
\* identity operation, the returned status is 1 whenever the HTTP response is
\* 2xx, whatever status, content type or text the response body has (a body that
\* is no JSON raises nothing), and 0 for every other HTTP status.
C21_Http2xxIsStatus1 ==
    (pc = "done" /\ IsSome(invocation) /\ InvokedOp \in StatusOps /\ IsSome(response)) =>
        result = Some(Returned(<<"status", IF Ok(response[1]) THEN 1 ELSE 0>>))

\* trackEvent answered 200 with the body {"status":0}: the result is status 1
C21_Witness ==
    /\ pc = "done" /\ IsSome(invocation) /\ InvokedOp = "trackEvent"
    /\ IsSome(response) /\ response[1].status = 200 /\ response[1].body = <<STATUS_0>>
    /\ result = Some(Returned(<<"status", 1>>))

\* a group mutation answered 200 with a body that is no JSON: the result is status 1
C21_WitnessNoJson ==
    /\ pc = "done" /\ IsSome(invocation) /\ InvokedOp \in GroupMutations
    /\ IsSome(response) /\ response[1].status = 200 /\ response[1].body = HTML_BODY
    /\ IncludesJson(response[1].contentType)
    /\ result = Some(Returned(<<"status", 1>>))

\* ---------------------------------------------------------------------------
\* C22
\* ---------------------------------------------------------------------------
\* C22: the credentials a client holds are those parsed from the headers of the
\* request it was built for, whatever operations it has run; and two clients
\* holding the same credentials that are given the same operation with the same
\* arguments issue the same request descriptor (URL, method, headers, body),
\* whatever either of them handled before.
C22_NoStateAcrossCalls ==
    /\ IsSome(client) => client[1] = parseTenantCredentials(inbound[1].headers)
    /\ (IsSome(invocation) /\ IsSome(peer.invocation) /\ client = peer.client
        /\ invocation[1].op = peer.invocation[1].op
        /\ invocation[1].args = peer.invocation[1].args) =>
           calls = peer.calls

\* a client that has handled listFunnels before and a client that has handled
\* nothing, both of tenant A, send the same trackEvents batch
C22_Witness ==
    /\ pc = "awaiting" /\ peer.pc = "awaiting"
    /\ previous = Some("listFunnels") /\ peer.previous = None
    /\ client = Some(parseTenantCredentials(TenantA)) /\ peer.client = client
    /\ InvokedOp = "trackEvents" /\ peer.invocation[1].op = "trackEvents"
    /\ invocation[1].args = peer.invocation[1].args
    /\ Len(calls) = 1 /\ calls = peer.calls
    /\ DOMAIN calls[1].headers = {"Content-Type"}

\* ---------------------------------------------------------------------------
\* C23
\* ---------------------------------------------------------------------------
\* the tool names listed under "Available Tools" in the README
README_TOOLS ==
    { "mixpanel_query_events", "mixpanel_query_insights",
      "mixpanel_query_retention", "mixpanel_query_segmentation",
      "mixpanel_list_funnels", "mixpanel_get_funnel",
      "mixpanel_create_funnel", "mixpanel_query_funnel",
      "mixpanel_get_profile", "mixpanel_set_profile",
      "mixpanel_delete_profile", "mixpanel_query_profiles",
      "mixpanel_track_event", "mixpanel_import_events",
      "mixpanel_export_events", "mixpanel_get_group",
      "mixpanel_set_group", "mixpanel_delete_group",
      "mixpanel_identify", "mixpanel_alias",
      "mixpanel_merge_identities", "mixpanel_list_cohorts",
      "mixpanel_get_cohort", "mixpanel_create_cohort",
      "mixpanel_get_project", "mixpanel_list_workspaces",
      "mixpanel_gdpr_delete", "mixpanel_gdpr_export" }

\* C23: every tool name listed under "Available Tools" in the README is a tool
\* registered on the server created for a request.
C23_ReadmeToolsRegistered ==
    IsSome(server) => README_TOOLS \subseteq server[1]

\* ---------------------------------------------------------------------------
\* C24
\* ---------------------------------------------------------------------------
\* the operations that hand on what the request helper gave them
HandsOnRequestOutcome ==
    /\ pc = "done" /\ IsSome(invocation) /\ IsSome(response)
    /\ invocation[1].via = "request"
    /\ InvokedOp \notin {"testConnection", "deleteAnnotation", "createOrUpdateSchema",
                         "deleteSchema", "cancelDataDeletion"}

\* the body is one JSON text, white space around it aside
IsJsonText(body) == Len(trim(body)) = 1 /\ trim(body)[1] \in JsonTexts

\* the outcome of the helper for a response that is not 2xx with a JSON content
\* type: rate-limit error, authentication error, API error with the status and
\* the body text, or the raw text
ClassifiedWithoutParsing(resp, outcome) ==
    IF resp.status = 429 THEN outcome.kind = "RateLimitError"
    ELSE IF resp.status \in {401, 403} THEN outcome.kind = "AuthenticationError"
    ELSE IF ~(resp.status \in 200..299) THEN
        /\ outcome.kind = "ApiError"
        /\ outcome.statusCode = Some(resp.status)
        /\ Contains(outcome.message, String(resp.status))
        /\ Contains(outcome.message, resp.body)
    ELSE outcome = Returned(<<"text", resp.body>>)

C24_WitnessSyntaxError ==
    /\ HandsOnRequestOutcome
    /\ response[1].status = 200 /\ IncludesJson(response[1].contentType)
    /\ response[1].body = HTML_BODY
    /\ result[1].kind = "SyntaxError"

\* a 200 answer with a text/plain content type: the raw text
C24_WitnessText ==
    /\ HandsOnRequestOutcome
    /\ response[1].status = 200 /\ response[1].contentType = Some(<<"text/plain">>)
    /\ result[1] = Returned(<<"text", response[1].body>>)

\* ---------------------------------------------------------------------------
\* C25
\* ---------------------------------------------------------------------------
\* the upload of a lookup table has been issued
LookupTableUploaded ==
    IsSome(invocation) /\ InvokedOp = "createOrReplaceLookupTable" /\ calls /= <<>>

\* the value of key h in a row: None when the row has no such key or holds null
ValueOf(row, h) ==
    IF \E i \in 1..Len(row) : row[i][1] = h
    THEN row[CHOOSE i \in 1..Len(row) : row[i][1] = h][2]
    ELSE None

\* the text is sent as it is, by PUT, with a text/csv content type
SentAsRawCsv ==
    /\ calls[1].method = "PUT"
    /\ calls[1].headers["Content-Type"] = <<"text/csv">>
    /\ calls[1].body[1][1] = "text"

\* C25: the CSV that createOrReplaceLookupTable emits, read back as CSV, has one
\* header record and one data record per input row in input order, every record
\* with exactly as many fields as the first row has keys; the header fields are
\* the keys of the first row in their order; a null or missing value is an empty
\* field; keys that only later rows have are not emitted; and the text is sent as
\* a raw text/csv body by PUT, not as JSON.
C25_CsvColumnsAreFirstRowKeys ==
    LookupTableUploaded =>
        LET data == InvokedArgs.data
            keys == [c \in 1..Len(data[1]) |-> data[1][c][1]]
            parsed == ParseCsv(UploadedCsv)
        IN  /\ SentAsRawCsv
            /\ Len(parsed) = Len(data) + 1
            /\ \A r \in 1..Len(parsed) : Len(parsed[r]) = Len(keys)
            /\ \A c \in 1..Len(keys) : parsed[1][c] = KeyText(keys[c])
            /\ \A r \in 1..Len(data) : \A c \in 1..Len(keys) :
                   ValueOf(data[r], keys[c]) = None => parsed[r + 1][c] = <<>>

\* ---------------------------------------------------------------------------
\* C26
\* ---------------------------------------------------------------------------
\* C26: createOrReplaceLookupTable called with an empty list of rows fails with an
\* API error and issues no HTTP call; and when its PUT is answered with a status
\* outside 200..299, it raises an API error that carries that status.
C26_LookupTableFailures ==
    (IsSome(invocation) /\ InvokedOp = "createOrReplaceLookupTable") =>
        /\ InvokedArgs.data = <<>> =>
               /\ calls = <<>>
               /\ pc = "done"
               /\ result = Some(ApiError(<<"Lookup table data cannot be empty">>, None))
        /\ (IsSome(response) /\ ~(response[1].status \in 200..299)) =>
               /\ IsSome(result)
               /\ result[1].kind = "ApiError"
               /\ result[1].statusCode = Some(response[1].status)

\* the upload of an empty list of rows has failed without a call
C26_Witness ==
    /\ IsSome(invocation) /\ InvokedOp = "createOrReplaceLookupTable"
    /\ InvokedArgs.data = <<>>
    /\ calls = <<>> /\ IsSome(result) /\ result[1].kind = "ApiError"

\* the PUT of a table was answered 429: an API error with status 429
C26_WitnessRefused ==
    /\ IsSome(invocation) /\ InvokedOp = "createOrReplaceLookupTable"
    /\ Len(calls) = 1 /\ calls[1].method = "PUT"
    /\ IsSome(response) /\ response[1].status = 429
    /\ result[1].kind = "ApiError" /\ result[1].statusCode = Some(429)

\* ---------------------------------------------------------------------------
\* C27
\* ---------------------------------------------------------------------------
\* the events of the body sent to /track
TrackedEvents == JsonOf(calls[1].body)

\* C27: in every event sent to /track by trackEvent or trackEvents, the token
\* property is the project token of the tenant and, for trackEvent, distinct_id
\* is the distinctId argument, whatever keys the caller's properties hold.
C27_TrackedEventsCarryProjectToken ==
    (IsSome(invocation) /\ InvokedOp \in {"trackEvent", "trackEvents"} /\ calls /= <<>>) =>
        \A i \in 1..Len(TrackedEvents) :
            LET properties == Get(TrackedEvents[i], "properties")
            IN  /\ Get(properties, "token") = Credentials.projectToken[1]
                /\ InvokedOp = "trackEvent" =>
                       Get(properties, "distinct_id") = InvokedArgs.distinctId

\* ---------------------------------------------------------------------------
\* C28
\* ---------------------------------------------------------------------------
\* the query parameters of the call, as a server reads them
SentQuery == Range(QueryPairs(SubSeq(calls[1].url, 3, Len(calls[1].url))))

\* the optional number is sent under the name when it was supplied
Forwarded(name, supplied) ==
    IsSome(supplied) => <<name, String(supplied[1])>> \in SentQuery

\* C28: an optional numeric parameter the caller supplies is sent with the
\* supplied value, 0 included: the time of trackEvent (the caller's properties
\* holding no time of their own), the limit of getTopEvents and the limit, from
\* and to of getProfileActivity.
C28_SuppliedParametersForwarded ==
    (IsSome(invocation) /\ calls /= <<>>) =>
        /\ (InvokedOp = "trackEvent" /\ IsSome(InvokedArgs.time)
            /\ ~(IsSome(InvokedArgs.properties) /\ HasKey(InvokedArgs.properties[1], "time"))) =>
               Get(Get(JsonOf(calls[1].body)[1], "properties"), "time") = InvokedArgs.time[1]
        /\ InvokedOp = "getTopEvents" => Forwarded("limit", InvokedArgs.limit)
        /\ InvokedOp = "getProfileActivity" =>
               /\ Forwarded("limit", InvokedArgs.limit)
               /\ Forwarded("from", InvokedArgs.from)
               /\ Forwarded("to", InvokedArgs.to)

\* ---------------------------------------------------------------------------
\* C29
\* ---------------------------------------------------------------------------
EightBaseUrls ==
    { DATA_API_URL, MIXPANEL_API_URL, EU_DATA_API_URL, EU_MIXPANEL_API_URL,
      INGESTION_API_URL, EU_INGESTION_API_URL, APP_API_URL, EU_APP_API_URL }

\* the text of a URL given as its pieces
RECURSIVE Flatten(_)
Flatten(pieces) == IF pieces = <<>> THEN "" ELSE pieces[1] \o Flatten(Tail(pieces))

\* the host a URL parser finds in an https URL: the authority runs to the first
\* "/", "?" or "#", and the host is what follows its last "@"
HostOf(text) ==
    LET rest == SubSeq(text, 9, Len(text))
        stops == {k \in 1..Len(rest) : SubSeq(rest, k, k) \in {"/", "?", "#"}}
        end == IF stops = {} THEN Len(rest) + 1
               ELSE CHOOSE k \in stops : \A j \in stops : k <= j
        authority == SubSeq(rest, 1, end - 1)
        ats == {k \in 1..Len(authority) : SubSeq(authority, k, k) = "@"}
        start == IF ats = {} THEN 1 ELSE 1 + CHOOSE k \in ats : \A j \in ats : k >= j
    IN  SubSeq(authority, start, Len(authority))

\* the characters of str occur, one after the other, somewhere in the value
Mentions(value, str) ==
    /\ str /= <<>>
    /\ LET text == ToString(str)
       IN  Contains(ToString(value), SubSeq(text, 3, Len(text) - 2))

\* the value holds the secret of the request's credentials, bare or inside the
\* base64 text of username:secret
Leaks(value) ==
    LET credentials == parseTenantCredentials(inbound[1].headers)
    IN  \/ Mentions(value, credentials.secret)
        \/ /\ credentials.secret /= <<>>
           /\ Mentions(value, btoa(credentials.username \o <<":">> \o credentials.secret))

\* C29: the service-account secret is sent only inside the Authorization header
\* of calls to one of the eight fixed base URLs: every call goes to the host of one
\* of them whatever the parameters, and the secret is in no URL, no other header,
\* no body, no result or error returned by an operation, no envelope returned by a
\* tool and no answer of the fetch handler.
C29_SecretOnlyInAuthorizationHeader ==
    IsSome(inbound) =>
        /\ \A i \in 1..Len(calls) :
               /\ calls[i].url[1] \in EightBaseUrls
               /\ HostOf(Flatten(calls[i].url)) = HostOf(calls[i].url[1])
               /\ ~Leaks(calls[i].url)
               /\ ~Leaks(calls[i].body)
               /\ \A h \in DOMAIN calls[i].headers \ {"Authorization"} :
                      ~Leaks(calls[i].headers[h])
        /\ ~Leaks(result)
        /\ ~Leaks(envelope)
        /\ ~Leaks(httpResponse)

\* a call that carries the secret in its Authorization header, to a path made of
\* a caller's table name, and that has been answered with an error
C29_Witness ==
    /\ IsSome(inbound) /\ IsSome(invocation) /\ InvokedOp = "createOrReplaceLookupTable"
    /\ InvokedArgs.tableName = <<"a", "/", "b">>
    /\ Len(calls) = 1
    /\ Leaks(calls[1].headers["Authorization"])
    /\ HostOf(Flatten(calls[1].url)) = "api.mixpanel.com"
    /\ IsSome(result) /\ result[1].kind = "ApiError"
    /\ IsSome(envelope)

\* ---------------------------------------------------------------------------
\* C30
\* ---------------------------------------------------------------------------
\* the places of the characters of chars in the text
Places(text, chars) == {k \in 1..Len(text) : SubSeq(text, k, k) \in chars}

FirstPlace(text, chars) ==
    CHOOSE k \in Places(text, chars) : \A j \in Places(text, chars) : k <= j

\* the text before, and after, the first of the characters of chars in it
Before(text, chars) ==
    IF Places(text, chars) = {} THEN text
    ELSE SubSeq(text, 1, FirstPlace(text, chars) - 1)

After(text, chars) ==
    IF Places(text, chars) = {} THEN ""
    ELSE SubSeq(text, FirstPlace(text, chars) + 1, Len(text))

\* the name=value pairs of a query string
RECURSIVE QueryParameters(_)
QueryParameters(query) ==
    IF query = "" THEN {}
    ELSE LET first == Before(query, {"&"})
         IN  {<<Before(first, {"="}), After(first, {"="})>>}
             \cup QueryParameters(After(query, {"&"}))

\* what a URL parser makes of the call's URL below its base URL: the number of
\* path segments and the query parameters
UrlShape(call) ==
    LET text == Flatten(call.url)
        rest == Before(SubSeq(text, Len(call.url[1]) + 1, Len(text)), {"#"})
    IN  [ segments |-> Cardinality(Places(Before(rest, {"?"}), {"/"})),
          query |-> QueryParameters(After(rest, {"?"})) ]

\* the shape the URL of each operation is to have, whatever identifier it is given
ExpectedShape(op) ==
    CASE op = "createOrReplaceLookupTable" ->
           [ segments |-> 2,
             query |-> {<<"project_id", Flatten(Credentials.projectId)>>} ]
      [] op \in {"getSchema", "createOrUpdateSchema", "deleteSchema"} ->
           [segments |-> 5, query |-> {}]
      [] op \in {"getAnnotation", "updateAnnotation", "deleteAnnotation"} ->
           [segments |-> 4, query |-> {}]
      [] op \in {"getDataRetrievalStatus", "getDataDeletionStatus", "cancelDataDeletion"} ->
           [ segments |-> 3,
             query |-> {<<"token", Flatten(Interpolate(Credentials.projectToken))>>} ]

InterpolatingOps ==
    { "createOrReplaceLookupTable", "getSchema", "createOrUpdateSchema", "deleteSchema",
      "getAnnotation", "updateAnnotation", "deleteAnnotation", "getDataRetrievalStatus",
      "getDataDeletionStatus", "cancelDataDeletion" }

\* C30: in every operation that puts a caller's identifier into the URL path
\* (schema name, lookup-table name, GDPR request id, annotation id), the
\* identifier is percent-encoded: whatever '/', '?', '#' or '&' it holds, the URL
\* has the path segments and the query parameters (project_id, token) that the
\* operation's template has.
C30_IdentifiersCannotReshapeUrl ==
    (IsSome(invocation) /\ InvokedOp \in InterpolatingOps /\ calls /= <<>>) =>
        UrlShape(calls[1]) = ExpectedShape(InvokedOp)

\* what holds: the schema operations, which encode the name
C30_SchemaNamesAreEncoded ==
    (IsSome(invocation) /\ InvokedOp \in {"getSchema", "createOrUpdateSchema", "deleteSchema"}
     /\ calls /= <<>>) =>
        /\ UrlShape(calls[1]) = ExpectedShape(InvokedOp)
        /\ Contains(calls[1].url, encodeURIComponent(InvokedArgs.name))

C30_WitnessSchema ==
    /\ IsSome(invocation) /\ InvokedOp = "deleteSchema" /\ calls /= <<>>
    /\ InvokedArgs.name = <<"a", "/", "b", "?", "c">>
    /\ Contains(calls[1].url, <<"a", "%2F", "b", "%3F", "c">>)
    /\ UrlShape(calls[1]) = [segments |-> 5, query |-> {}]

====
